---- MODULE Spec2Model ----
(***************************************************************************)
(* Model of the USB device enumerator of libhal-util                       *)
(* (v5/include/libhal-util/usb/enumerator.hpp) together with the mock      *)
(* interfaces and the control endpoint it drives.                          *)
(*                                                                         *)
(* Bytes are naturals 0..255, byte strings are sequences, a scatter span   *)
(* is a sequence of byte strings.  An exception is modelled as the name of *)
(* the error in the field err of the execution context; "none" means the   *)
(* call returned normally.                                                 *)
(***************************************************************************)
EXTENDS Integers, Sequences, FiniteSets, TLC

\* ------------------------------------------------------------------ bounds

\* template parameter num_configs of enumerator<num_configs>
NumConfigs == 2

\* ---------------------------------------------------------- program constants

device_desc_size == 18
config_desc_size == 9
size_std_req == 8
interface_description_length == 9
interface_description_type == 4
string_description_type == 3
interface_association_descriptor_length == 8
interface_association_descriptor_type == 11

\* descriptor_type
DescDevice == 1
DescConfiguration == 2
DescString == 3
DescDeviceQualifier == 6

\* standard_request_types
ReqGetStatus == 0
ReqSetAddress == 5
ReqGetDescriptor == 6
ReqGetConfiguration == 8
ReqSetConfiguration == 9
ReqInvalid == 19

\* enumerate(): u8 cur_str_idx = 4
FirstConfigStrIdx == 4
\* handle_str_descriptors(): constexpr u8 device_str_start = 1
device_str_start == 1
\* write_cfg_str_descriptor(): the fixed device string indexes
manufacturer_idx == 1
product_idx == 2
serial_number_idx == 3
config_start_idx == 4

\* ------------------------------------------------------------------ helpers

Byte(n) == n % 256
U16(n) == n % 65536
Min(a, b) == IF a <= b THEN a ELSE b

\* setup_packet::to_le_u16 / to_le_bytes
ToLeU16(n) == << n % 256, (n \div 256) % 256 >>

\* setup_packet::from_le_bytes
FromLeBytes(first, second) == second * 256 + first

RECURSIVE Flatten(_)
\* the bytes of a scatter span, in order
Flatten(ss) == IF ss = << >> THEN << >> ELSE Head(ss) \o Flatten(Tail(ss))

RECURSIVE ScatterSpanSize(_)
\* scatter_span_size: sum of the sizes of the spans
ScatterSpanSize(ss) ==
    IF ss = << >> THEN 0 ELSE Len(Head(ss)) + ScatterSpanSize(Tail(ss))

First(s, n) == SubSeq(s, 1, n)

RECURSIVE SubScatterLoopWholeSpan(_, _, _, _, _)
\* a loop that keeps the whole of the span the count ends in
SubScatterLoopWholeSpan(p_count, full_ss, i, cur_len, res) ==
    IF i > Len(full_ss)
    THEN res
    ELSE IF p_count >= cur_len + Len(full_ss[i])
         THEN SubScatterLoopWholeSpan(p_count, full_ss, i + 1,
                                      cur_len + Len(full_ss[i]),
                                      Append(res, full_ss[i]))
         ELSE IF cur_len >= p_count
              THEN res
              ELSE Append(res, full_ss[i])

RECURSIVE SubScatterLoop(_, _, _, _, _)
\* the for loop of make_sub_scatter_array, from index i with cur_len bytes
\* taken and res the spans chosen so far; returns the first `count` spans
\* (the loop is entered only when the spans hold more than p_count bytes, so
\* it ends in one of its two returns before i runs past the last span)
SubScatterLoop(p_count, full_ss, i, cur_len, res) ==
    IF i > Len(full_ss)
    THEN res
    ELSE IF p_count >= cur_len + Len(full_ss[i])
         THEN SubScatterLoop(p_count, full_ss, i + 1,
                             cur_len + Len(full_ss[i]), Append(res, full_ss[i]))
         ELSE IF cur_len >= p_count
              THEN res
              ELSE Append(res, First(full_ss[i], p_count - cur_len))

\* make_sub_scatter_array(p_count, spans...): scatter_span(result.spans)
\* .first(result.count)
MakeSubScatterBytes(p_count, full_ss) ==
    IF ScatterSpanSize(full_ss) <= p_count
    THEN full_ss
    ELSE SubScatterLoop(p_count, full_ss, 1, 0, << >>)

\* ------------------------------------------------------- strings of the device

\* device_arguments of the modelled device: UTF-16LE bytes of the three strings
manufacturer_str == << 108, 0, 105, 0 >>
product_str == << 85, 0 >>
serial_number_str == << 49, 0, 50, 0, 51, 0 >>

\* configuration_info::name of configuration c (1-based position in the array)
ConfName(c) == << 67, 0, 48 + c, 0 >>

\* control_endpoint::info().size of the modelled endpoint
EndpointSize == 8
\* args::lang_str
LangStr == 1033

\* device_arguments of the modelled device
bcd_usb == 2
device_class == 254
device_subclass == 0
device_protocol == 0
id_vendor == 65535
id_product == 0
bcd_device == 1

\* device::device: the 16 packed bytes after construction
DeviceInit ==
    ToLeU16(bcd_usb) \o << device_class, device_subclass, device_protocol >>
    \o << 0 >> \o ToLeU16(id_vendor) \o ToLeU16(id_product)
    \o ToLeU16(bcd_device) \o << 1, 2, 3 >> \o << 0 >>

\* configuration::configuration: the 7 packed bytes after construction;
\* attributes bitmap(true, false) and max_power 1
ConfigInit(n_ifaces) == << 0, 0, n_ifaces, 0, 0, 192, 1 >>

\* accessors of configuration::m_packed_arr
total_length(conf) == FromLeBytes(conf[1], conf[2])
num_interfaces(conf) == conf[3]
configuration_value(conf) == conf[4]
configuration_index(conf) == conf[5]

set_total_length(conf, v) ==
    [conf EXCEPT ![1] = ToLeU16(v)[1], ![2] = ToLeU16(v)[2]]
set_num_interfaces(conf, v) == [conf EXCEPT ![3] = Byte(v)]
set_configuration_value(conf, v) == [conf EXCEPT ![4] = Byte(v)]
set_configuration_index(conf, v) == [conf EXCEPT ![5] = Byte(v)]

\* accessors of device::m_packed_arr
set_max_packet_size(d, v) == [d EXCEPT ![6] = Byte(v)]
set_num_configurations(d, v) == [d EXCEPT ![16] = Byte(v)]

\* ------------------------------------------------------------ the interfaces

\* The interface objects the configurations are built from: 1 and 3 are
\* `mock` interfaces, 2 is an `iad_mock` (an association of two interfaces).
IfaceIds == {1, 2, 3}
IfaceKind(i) == IF i = 2 THEN "iad" ELSE "mock"

\* mock::name, iad_mock::m_name_one (UTF-16LE bytes)
IfaceName(i) == << 73, 0, 48 + i, 0 >>
\* iad_mock::m_name_two
IfaceNameTwo(i) == << 74, 0, 48 + i, 0, 50, 0 >>

\* std::nullopt of descriptor_start
None == 0 - 1

\* state of an interface object before any enumeration
IfaceInit == [num1 |-> 0, str1 |-> 0, num2 |-> 0, str2 |-> 0, wrote |-> FALSE]

\* mock::driver_write_descriptors
MockWriteDescriptors(st, start_iface, start_str) ==
    LET st1 == [st EXCEPT
                  !.num1 = IF start_iface # None THEN start_iface ELSE @,
                  !.str1 = IF start_str # None THEN start_str ELSE @]
    IN [st |-> st1,
        data |-> << << interface_description_length, interface_description_type,
                       st1.num1, 0, 1, 2, 3, 4, st1.str1 >> >>,
        d_iface |-> IF start_iface # None THEN 1 ELSE 0,
        d_str |-> IF start_str # None THEN 1 ELSE 0,
        err |-> "none"]

\* iad_mock::driver_write_descriptors
IadWriteDescriptors(st, start_iface, start_str) ==
    IF start_iface = None \/ start_str = None
    THEN [st |-> st, data |-> << >>, d_iface |-> 0, d_str |-> 0,
          err |-> "argument_out_of_domain"]
    ELSE LET st1 == [num1 |-> start_iface,
                     str1 |-> Byte(start_str + 1),
                     num2 |-> Byte(start_iface + 1),
                     str2 |-> Byte(start_str + 2),
                     wrote |-> TRUE]
             iface_header == << interface_description_length,
                                interface_description_type >>
             static_desc_vars == << 0, 1, 0, 0, 0 >>
         IN [st |-> st1,
             data |-> << << interface_association_descriptor_length,
                            interface_association_descriptor_type,
                            0, 2, 0, 0, 0, start_str >>,
                         iface_header, << st1.num1 >>, static_desc_vars,
                         << st1.str1 >>,
                         iface_header, << st1.num2 >>, static_desc_vars,
                         << st1.str2 >> >>,
             d_iface |-> 2, d_str |-> 3, err |-> "none"]

\* interface::write_descriptors of interface i in state st
WriteDescriptors(i, st, start_iface, start_str) ==
    IF IfaceKind(i) = "mock"
    THEN MockWriteDescriptors(st, start_iface, start_str)
    ELSE IadWriteDescriptors(st, start_iface, start_str)

\* mock::driver_write_string_descriptor
MockWriteStringDescriptor(i, st, p_index) ==
    IF p_index # st.str1
    THEN [res |-> FALSE, desc |-> << >>, err |-> "none"]
    ELSE LET chars == Len(IfaceName(i)) \div 2
         IN [res |-> TRUE,
             desc |-> << << string_description_type, Byte(chars) >>,
                         First(IfaceName(i), chars) >>,
             err |-> "none"]

\* iad_mock::driver_write_string_descriptor
IadWriteStringDescriptor(i, st, p_index) ==
    IF ~st.wrote
    THEN [res |-> FALSE, desc |-> << >>, err |-> "operation_not_permitted"]
    ELSE IF p_index = st.str1
    THEN LET chars == Len(IfaceName(i)) \div 2
         IN [res |-> TRUE,
             desc |-> << << Byte(chars + 2), string_description_type >>,
                         First(IfaceName(i), chars) >>,
             err |-> "none"]
    ELSE IF p_index = st.str2
    THEN LET chars == Len(IfaceNameTwo(i)) \div 2
         IN [res |-> TRUE,
             desc |-> << << Byte(st.str2 + 2), string_description_type >>,
                         First(IfaceNameTwo(i), chars) >>,
             err |-> "none"]
    ELSE [res |-> FALSE, desc |-> << >>, err |-> "none"]

\* interface::write_string_descriptor of interface i in state st
WriteStringDescriptor(i, st, p_index) ==
    IF IfaceKind(i) = "mock"
    THEN MockWriteStringDescriptor(i, st, p_index)
    ELSE IadWriteStringDescriptor(i, st, p_index)

\* interface::handle_request: mock handles every request, iad_mock none
HandleRequest(i) == IfaceKind(i) = "mock"

\* ------------------------------------------------- state of the enumerator

VARIABLES
    topo,                 \* configuration::interfaces of each configuration
    m_configs,            \* configuration::m_packed_arr of each configuration
    m_device,             \* device::m_packed_arr
    ifc,                  \* state of each interface object
    m_active_conf,        \* 0 is nullptr, else the position in m_configs
    m_has_setup_packet,
    m_iface_for_str_desc, \* << >> is nullopt, else << index, interface >>
    ep,                   \* the control endpoint
    pc,                   \* where the calling thread is
    waiting_for_data,     \* the local flag of enumerate()
    done,                 \* what the last executed call did, until the next
                          \* setup packet arrives (observation)
    selected,             \* value of the last SET_CONFIGURATION that succeeded
                          \* since enumerate() was called, None if none did
    pass,                 \* the assignments of the finalization passes (observation)
    pending               \* the receive notifications delivered and not yet
                          \* followed by a read of a setup packet (observation,
                          \* kept by the specification that counts)

usb_vars == << topo, m_configs, m_device, ifc, m_active_conf,
              m_has_setup_packet, m_iface_for_str_desc, ep, pc,
              waiting_for_data, done, selected, pass, pending >>

\* ------------------------------------ state of the other components
\* Each component below has a specification of its own; the specification of
\* one component leaves the state of the others as it was constructed.

VARIABLES
    sc,                   \* make_sub_scatter_bytes: the last call and its result
    rq,                   \* get_standard_request: the last call and its result
    leg,                  \* the enumerator of src/include (before v5) in its
                          \* steady state: m_has_setup_packet, where the caller
                          \* is, notifications and reads so far
    lk,                   \* an atomic_spin_lock and the threads that use it
    cf,                   \* a can_message_finder, the transceiver it reads
                          \* and where its caller is
    bb,                   \* bit_bang_i2c: the last transaction, what the
                          \* peripheral answered and what went over the bus
    lsc,                  \* the enumerator of src/include (before v5): its
                          \* active configuration and the last SET_CONFIGURATION
    ctor                  \* the constructor of the enumerator of src/include: its
                          \* starting string index, whether it threw, and the string
                          \* indexes enumerate() handed out

others == << sc, rq, leg, lk, cf, bb, lsc, ctor >>

\* everything but the state of one component
but_sc == << usb_vars, rq, leg, lk, cf, bb, lsc, ctor >>
but_rq == << usb_vars, sc, leg, lk, cf, bb, lsc, ctor >>
but_leg == << usb_vars, sc, rq, lk, cf, bb, lsc, ctor >>
but_lk == << usb_vars, sc, rq, leg, cf, bb, lsc, ctor >>
but_cf == << usb_vars, sc, rq, leg, lk, bb, lsc, ctor >>
but_bb == << usb_vars, sc, rq, leg, lk, cf, lsc, ctor >>
but_lsc == << usb_vars, sc, rq, leg, lk, cf, bb, ctor >>
but_ctor == << usb_vars, sc, rq, leg, lk, cf, bb, lsc >>

vars == << usb_vars, others >>

Configs == 1 .. NumConfigs

\* ------------------------------------------------------ execution context
\* The effects of one request handler: what it wrote to the endpoint (one
\* entry per control_endpoint::write, a zero-length packet is << >>), the
\* fields of the enumerator it changed, and the exception that ended it.

Ctx0 ==
    [err |-> "none", out |-> << >>, active |-> m_active_conf,
     cache |-> m_iface_for_str_desc, dev |-> m_device, address |-> ep.address,
     path |-> "none", asked |-> << >>, emitted |-> << >>, handled |-> FALSE,
     selected |-> selected]

\* safe_throw
Throw(ctx, e) == [ctx EXCEPT !.err = e]

\* control_endpoint::write
EpWrite(ctx, ss) == [ctx EXCEPT !.out = Append(@, Flatten(ss))]

\* hal::v5::write_and_flush
WriteAndFlush(ctx, ss) == EpWrite(EpWrite(ctx, ss), << >>)

\* the data bytes a handler sent, zero-length packets dropped
DataOf(out) == Flatten(out)

\* ------------------------------------------------------ string descriptors

\* enumerator::write_cfg_str_descriptor, the lookup: opt_conf_sv, << >> for
\* std::nullopt and << sv >> for a string
CfgStrLookup(target_idx) ==
    IF target_idx = manufacturer_idx THEN << manufacturer_str >>
    ELSE IF target_idx = product_idx THEN << product_str >>
    ELSE IF target_idx = serial_number_idx THEN << serial_number_str >>
    ELSE IF \E i \in 0 .. NumConfigs - 1 : target_idx = config_start_idx + i
         THEN << ConfName(1 + CHOOSE i \in 0 .. NumConfigs - 1 :
                                target_idx = config_start_idx + i) >>
         ELSE << >>

\* enumerator::write_cfg_str_descriptor
WriteCfgStrDescriptor(ctx, target_idx, p_len) ==
    LET opt_conf_sv == CfgStrLookup(target_idx) IN
    IF opt_conf_sv = << >>
    THEN [ok |-> FALSE, ctx |-> ctx]
    ELSE LET sv == opt_conf_sv[1]
             desc_len == Byte(Len(sv) + 2)
             hdr_arr == << desc_len, DescString >>
         IN [ok |-> TRUE,
             ctx |-> WriteAndFlush(ctx,
                        MakeSubScatterBytes(p_len, << hdr_arr, sv >>))]

\* the writer f of handle_str_descriptors
StrWriter(ctx, desc, p_len) ==
    IF p_len > 2
    THEN WriteAndFlush(ctx, desc)
    ELSE WriteAndFlush(ctx, << << desc[1][1] >>, << DescString >> >>)

RECURSIVE ScanIfaces(_, _, _, _)
\* one `for (auto const& iface : conf.interfaces)` loop of
\* handle_str_descriptors: ask each interface until one recognizes the index
ScanIfaces(ctx, ifaces, target_idx, p_len) ==
    IF ifaces = << >>
    THEN [found |-> FALSE, ctx |-> ctx]
    ELSE LET i == Head(ifaces)
             r == WriteStringDescriptor(i, ifc[i], target_idx)
             c1 == [ctx EXCEPT !.asked = Append(@, i)]
         IN IF r.err # "none"
            THEN [found |-> TRUE, ctx |-> Throw(c1, r.err)]
            ELSE IF r.res
            THEN [found |-> TRUE,
                  ctx |-> StrWriter([c1 EXCEPT !.emitted = Append(@, i)],
                                    r.desc, p_len)]
            ELSE ScanIfaces(c1, Tail(ifaces), target_idx, p_len)

RECURSIVE ScanConfigs(_, _, _, _)
\* the `for (configuration const& conf : *m_configs)` loop of
\* handle_str_descriptors, from configuration c on
ScanConfigs(ctx, c, target_idx, p_len) ==
    IF c > NumConfigs \/ ctx.err # "none"
    THEN ctx
    ELSE ScanConfigs(ScanIfaces(ctx, topo[c], target_idx, p_len).ctx,
                     c + 1, target_idx, p_len)

\* handle_str_descriptors, after the cache: scan the interfaces
ScanForString(ctx, target_idx, p_len) ==
    LET a == IF ctx.active # 0
             THEN ScanIfaces(ctx, topo[ctx.active], target_idx, p_len)
             ELSE [found |-> FALSE, ctx |-> ctx]
    IN IF a.found THEN a.ctx ELSE ScanConfigs(a.ctx, 1, target_idx, p_len)

\* handle_str_descriptors: the cached interface, asked first
CachedString(ctx, target_idx) ==
    IF ctx.cache # << >> /\ ctx.cache[1] = target_idx
    THEN LET i == ctx.cache[2]
             r == WriteStringDescriptor(i, ifc[i], target_idx)
             c1 == [ctx EXCEPT !.asked = Append(@, i)]
         IN IF r.err # "none"
            THEN [success |-> TRUE, ctx |-> Throw(c1, r.err)]
            ELSE IF r.res
            THEN [success |-> TRUE,
                  ctx |-> WriteAndFlush([c1 EXCEPT !.emitted = Append(@, i)],
                                        r.desc)]
            ELSE [success |-> FALSE, ctx |-> c1]
    ELSE [success |-> FALSE, ctx |-> ctx]

\* the last index handle_str_descriptors sends to write_cfg_str_descriptor
CfgStringEnd == Byte(device_str_start + 3 + NumConfigs)

\* enumerator::handle_str_descriptors
HandleStrDescriptors(ctx, target_idx, p_len) ==
    IF target_idx <= CfgStringEnd
    THEN LET r == WriteCfgStrDescriptor([ctx EXCEPT !.path = "cfg"],
                                        target_idx, p_len)
         IN IF ~r.ok
            THEN Throw(r.ctx, "argument_out_of_domain")
            ELSE [r.ctx EXCEPT !.cache = << >>]
    ELSE LET c == CachedString([ctx EXCEPT !.path = "iface"], target_idx)
         IN IF c.success
            THEN c.ctx
            ELSE ScanForString(c.ctx, target_idx, p_len)

\* ------------------------------------------------------------ setup packets
\* A setup packet as the endpoint delivers it: n is the byte count read()
\* returns, the other fields are what the 8 bytes decode to.

\* determine_standard_request / setup_request::get_standard_request
DetermineStandardRequest(req) ==
    IF req.type # "standard" \/ req.request = 4 \/ req.request > 18
    THEN ReqInvalid
    ELSE req.request

DescTypeOf(req) == (req.value \div 256) % 256
DescIdxOf(req) == req.value % 256

RECURSIVE WriteIfaceDescriptors(_, _)
\* process_get_descriptor, configuration: every interface writes its
\* descriptors to the endpoint, no index is assigned
WriteIfaceDescriptors(ctx, ifaces) ==
    IF ifaces = << >>
    THEN ctx
    ELSE LET i == Head(ifaces)
             r == WriteDescriptors(i, ifc[i], None, None)
         IN IF r.err # "none"
            THEN Throw(ctx, r.err)
            ELSE WriteIfaceDescriptors(EpWrite(ctx, r.data), Tail(ifaces))

\* a device descriptor reply that ignores the requested length
GetDeviceDescriptorFull(ctx, req) ==
    LET header == << device_desc_size, DescDevice >>
        d == set_max_packet_size(ctx.dev, EndpointSize)
    IN WriteAndFlush([ctx EXCEPT !.dev = d], << header, d >>)

\* process_get_descriptor, case descriptor_type::device
GetDeviceDescriptor(ctx, req) ==
    LET header == << device_desc_size, DescDevice >>
        d == set_max_packet_size(ctx.dev, EndpointSize)
    IN WriteAndFlush([ctx EXCEPT !.dev = d],
                     MakeSubScatterBytes(req.length, << header, d >>))

\* process_get_descriptor, case descriptor_type::configuration
GetConfigurationDescriptor(ctx, req) ==
    LET desc_idx == DescIdxOf(req) IN
    IF desc_idx >= NumConfigs
    THEN Throw(ctx, "out_of_range")
    ELSE LET conf == m_configs[desc_idx + 1]
             conf_hdr == << config_desc_size, DescConfiguration >>
             c1 == EpWrite(ctx,
                     MakeSubScatterBytes(req.length, << conf_hdr, conf >>))
         IN IF req.length <= config_desc_size
            THEN EpWrite(c1, << >>)
            ELSE LET c2 == WriteIfaceDescriptors(c1, topo[desc_idx + 1])
                 IN IF c2.err # "none" THEN c2 ELSE EpWrite(c2, << >>)

\* process_get_descriptor, case descriptor_type::string
GetStringDescriptor(ctx, req) ==
    IF DescIdxOf(req) = 0
    THEN LET s_hdr == << 4, DescString >>
             lang == ToLeU16(LangStr)
         IN EpWrite(EpWrite([ctx EXCEPT !.path = "lang"], << s_hdr, lang >>),
                    << >>)
    ELSE HandleStrDescriptors(ctx, DescIdxOf(req), req.length)

\* enumerator::process_get_descriptor
ProcessGetDescriptor(ctx, req) ==
    IF DescTypeOf(req) = DescDevice THEN GetDeviceDescriptor(ctx, req)
    ELSE IF DescTypeOf(req) = DescConfiguration
    THEN GetConfigurationDescriptor(ctx, req)
    ELSE IF DescTypeOf(req) = DescString THEN GetStringDescriptor(ctx, req)
    ELSE Throw(ctx, "operation_not_supported")

\* handle_standard_device_request, case get_configuration
GetConfiguration(ctx) ==
    IF ctx.active = 0
    THEN Throw(ctx, "operation_not_permitted")
    ELSE EpWrite(ctx, << << configuration_value(m_configs[ctx.active]) >> >>)

\* a SET_CONFIGURATION that lets a value no configuration has pass
SetConfigurationUnchecked(ctx, req) ==
    IF req.value - 1 < 0 \/ req.value - 1 >= NumConfigs
    THEN ctx
    ELSE [ctx EXCEPT !.active = (req.value - 1) + 1,
                     !.selected = req.value]

\* handle_standard_device_request, case set_configuration:
\* m_active_conf = &(m_configs->at(req.value() - 1))
SetConfiguration(ctx, req) ==
    IF req.value - 1 < 0 \/ req.value - 1 >= NumConfigs
    THEN Throw(ctx, "out_of_range")
    ELSE [ctx EXCEPT !.active = (req.value - 1) + 1,
                     !.selected = req.value]

\* enumerator::handle_standard_device_request
HandleStandardDeviceRequest(ctx, req) ==
    LET r == DetermineStandardRequest(req) IN
    IF r = ReqSetAddress
    THEN [EpWrite(ctx, << >>) EXCEPT !.address = Byte(req.value)]
    ELSE IF r = ReqGetDescriptor THEN ProcessGetDescriptor(ctx, req)
    ELSE IF r = ReqGetConfiguration THEN GetConfiguration(ctx)
    ELSE IF r = ReqSetConfiguration THEN SetConfiguration(ctx, req)
    ELSE Throw(ctx, "not_connected")

RECURSIVE OfferRequestAll(_, _)
\* a loop over the interfaces without the break
OfferRequestAll(ctx, ifaces) ==
    IF ifaces = << >>
    THEN ctx
    ELSE LET c1 == [ctx EXCEPT !.asked = Append(@, Head(ifaces))]
         IN OfferRequestAll(
              IF HandleRequest(Head(ifaces))
              THEN [c1 EXCEPT !.handled = TRUE]
              ELSE c1,
              Tail(ifaces))

RECURSIVE OfferRequest(_, _)
\* resume_ctrl_transaction: the handle_request loop over the interfaces
OfferRequest(ctx, ifaces) ==
    IF ifaces = << >>
    THEN ctx
    ELSE LET c1 == [ctx EXCEPT !.asked = Append(@, Head(ifaces))]
         IN IF HandleRequest(Head(ifaces))
            THEN [c1 EXCEPT !.handled = TRUE]
            ELSE OfferRequest(c1, Tail(ifaces))

\* an interface dispatch that fails before it acknowledges
InterfaceDispatchThrowFirst(ctx, req) ==
    IF ctx.active = 0
    THEN Throw(ctx, "operation_not_permitted")
    ELSE LET c1 == OfferRequest(ctx, topo[ctx.active])
         IN IF ~c1.handled
            THEN Throw(c1, "argument_out_of_domain")
            ELSE EpWrite(c1, << >>)

\* an interface dispatch that acknowledges before it looks at the active
\* configuration
InterfaceDispatchZlpFirst(ctx, req) ==
    LET c0 == EpWrite(ctx, << >>) IN
    IF ctx.active = 0
    THEN Throw(c0, "operation_not_permitted")
    ELSE LET c1 == OfferRequest(c0, topo[ctx.active])
         IN IF ~c1.handled THEN Throw(c1, "argument_out_of_domain") ELSE c1

\* resume_ctrl_transaction: interface level requests
InterfaceDispatch(ctx, req) ==
    IF ctx.active = 0
    THEN Throw(ctx, "operation_not_permitted")
    ELSE LET c1 == EpWrite(OfferRequest(ctx, topo[ctx.active]), << >>)
         IN IF ~c1.handled THEN Throw(c1, "argument_out_of_domain") ELSE c1

\* `req.length() > 2` converted to the u16 parameter p_len
BoolToU16(b) == IF b THEN 1 ELSE 0

\* enumerator::resume_ctrl_transaction, after the setup packet is read
ResumeDispatch(ctx, req) ==
    IF req.type = "invalid"
    THEN ctx
    ELSE IF DetermineStandardRequest(req) = ReqGetDescriptor
            /\ DescTypeOf(req) = DescString
    THEN HandleStrDescriptors(ctx, DescIdxOf(req), BoolToU16(req.length > 2))
    ELSE IF req.recipient = "device"
    THEN HandleStandardDeviceRequest(ctx, req)
    ELSE InterfaceDispatch(ctx, req)

\* ------------------------------------------- enumerate(): finalization pass

\* a total length declared outside the loop over the configurations
InitialTotalLengthCarried(acc) ==
    IF acc.total = 0 THEN config_desc_size ELSE acc.total

\* enumerate(): auto total_length = configuration_descriptor_size, at the
\* start of each configuration
InitialTotalLength(acc) == config_desc_size

\* a string index kept in a member across calls of enumerate()
StartStrIdxAccumulated ==
    IF pass.n = 0 THEN FirstConfigStrIdx ELSE pass.end_str

\* enumerate(): the string index the pass starts from (a local, set anew on
\* every call)
StartStrIdx == FirstConfigStrIdx

\* enumerate(): the interface index the pass starts from
StartIfaceIdx == 0

\* configuration values numbered from zero
ConfigurationValueZeroBased(i) == i

\* enumerate(): the configuration value given to the configuration at array
\* position i (0-based)
ConfigurationValueFor(i) == i + 1

RECURSIVE AssignConfigs(_, _, _)
\* enumerate(): the first loop over the configurations, from position i on
AssignConfigs(cfgs, i, cur_str_idx) ==
    IF i >= NumConfigs
    THEN [cfgs |-> cfgs, cur_str |-> cur_str_idx]
    ELSE AssignConfigs(
           [cfgs EXCEPT ![i + 1] =
              set_configuration_value(
                set_configuration_index(@, cur_str_idx),
                ConfigurationValueFor(i))],
           i + 1, Byte(cur_str_idx + 1))

RECURSIVE FinalizeIfaces(_, _)
\* enumerate(): the loop over the interfaces of one configuration
FinalizeIfaces(acc, ifaces) ==
    IF ifaces = << >>
    THEN acc
    ELSE LET i == Head(ifaces)
             r == WriteDescriptors(i, acc.ifs[i], acc.cur_iface, acc.cur_str)
         IN FinalizeIfaces(
              [acc EXCEPT !.ifs[i] = r.st,
                          !.cur_iface = Byte(@ + r.d_iface),
                          !.cur_str = Byte(@ + r.d_str),
                          !.total = U16(@ + ScatterSpanSize(r.data)),
                          !.emitted = @ \o Flatten(r.data)],
              Tail(ifaces))

\* enumerate(): config.set_num_interfaces(cur_iface_idx)
NumInterfacesFor(acc) == acc.cur_iface

RECURSIVE FinalizeConfigs(_, _)
\* enumerate(): the second loop over the configurations, from c on
FinalizeConfigs(acc, c) ==
    IF c > NumConfigs
    THEN acc
    ELSE LET a == FinalizeIfaces(
                    [acc EXCEPT !.total = InitialTotalLength(acc),
                                !.emitted = << >>],
                    topo[c])
         IN FinalizeConfigs(
              [a EXCEPT !.cfgs[c] =
                 set_total_length(set_num_interfaces(@, NumInterfacesFor(a)),
                                  a.total),
                        !.emitted_by[c] = a.emitted],
              c + 1)

\* enumerate(): phase one, the whole preparation
Finalize ==
    LET a == AssignConfigs(m_configs, 0, StartStrIdx)
    IN FinalizeConfigs(
         [cfgs |-> a.cfgs, ifs |-> ifc, cur_iface |-> StartIfaceIdx,
          cur_str |-> a.cur_str, total |-> 0, emitted |-> << >>,
          emitted_by |-> [c \in Configs |-> << >>]],
         1)

\* ------------------------------------------------------- what the host sends

\* a well-formed 8-byte standard request to the device
Std(request, value, length, d2h) ==
    [n |-> size_std_req, recipient |-> "device", type |-> "standard",
     d2h |-> d2h, request |-> request, value |-> value, length |-> length]

\* no setup packet
NoReq ==
    [n |-> 0, recipient |-> "device", type |-> "standard", d2h |-> FALSE,
     request |-> 0, value |-> 0, length |-> 0]

\* wLength values of GET_DESCRIPTOR(device)
DeviceLengths == {0, 1, 2, 8, 18, 64}
\* wLength values of GET_DESCRIPTOR(configuration)
ConfigLengths == {2, 9, 64}
\* wLength values of GET_DESCRIPTOR(string)
StringLengths == {1, 2, 4, 255}

\* the setup packets the host may send once the string indexes up to
\* last_str have been handed out
Requests(last_str) ==
    { Std(ReqSetAddress, 48, 0, FALSE),
      Std(ReqGetConfiguration, 0, 1, TRUE),
      Std(ReqGetStatus, 0, 2, TRUE),
      Std(4, 0, 0, FALSE),
      Std(ReqGetDescriptor, DescDeviceQualifier * 256, 10, TRUE),
      [Std(ReqGetStatus, 0, 2, TRUE) EXCEPT !.type = "invalid"],
      [Std(ReqGetStatus, 0, 2, TRUE) EXCEPT !.recipient = "interface"],
      [Std(ReqSetConfiguration, 1, 0, FALSE) EXCEPT !.type = "class",
                                                    !.recipient = "interface"],
      [Std(ReqSetAddress, 48, 0, FALSE) EXCEPT !.n = 0],
      [Std(ReqSetConfiguration, 1, 0, FALSE) EXCEPT !.n = 4] }
    \cup { Std(ReqSetConfiguration, v, 0, FALSE) : v \in 0 .. NumConfigs + 1 }
    \cup { Std(ReqGetDescriptor, DescDevice * 256, l, TRUE) :
             l \in DeviceLengths }
    \cup { Std(ReqGetDescriptor, DescConfiguration * 256 + i, l, TRUE) :
             i \in 0 .. NumConfigs, l \in ConfigLengths }
    \cup { Std(ReqGetDescriptor, DescString * 256 + i, l, TRUE) :
             i \in 0 .. last_str + 1, l \in StringLengths }

\* ------------------------------------------------------------ observations

NoDone ==
    [op |-> "none", phase |-> "none", req |-> NoReq, err |-> "none",
     out |-> << >>, path |-> "none", asked |-> << >>, emitted |-> << >>,
     handled |-> FALSE, pre_active |-> 0, connects |-> << >>]

\* what a request handler did, as the observation of the call
DoneOf(phase, req, ctx) ==
    [op |-> "request", phase |-> phase, req |-> req, err |-> ctx.err,
     out |-> ctx.out, path |-> ctx.path, asked |-> ctx.asked,
     emitted |-> ctx.emitted, handled |-> ctx.handled,
     pre_active |-> m_active_conf, connects |-> << >>]

\* the shapes a configuration's interface list is drawn from
Shapes == { << >>, << 1, 2 >>, << 2, 3 >> }

\* ---------------------------------------------------------------- the system

\* make_sub_scatter_bytes has not been called
ScIdle == [called |-> FALSE, p_count |-> 0, spans |-> << >>, res |-> << >>]

\* the other components as constructed
\* get_standard_request has not been called
RqIdle == [called |-> FALSE, type |-> "standard", request |-> 0, result |-> 0]

\* the enumerator of src/include when its enumerate() has returned: the
\* callback that sets m_has_setup_packet is registered, the flag is false
LegInit == [m_has_setup_packet |-> FALSE, pc |-> "idle", notified |-> 0,
            reads |-> 0]

\* the threads that share one atomic_spin_lock
NumThreads == 4
Threads == 1 .. NumThreads

\* no operation of the lock has completed
NoOp == [op |-> "none", t |-> 0, was_set |-> FALSE, ret |-> FALSE]

\* atomic_spin_lock after construction (m_flag = ATOMIC_FLAG_INIT), no thread
\* inside a member function
LkInit == [m_flag |-> FALSE, pc |-> [t \in Threads |-> "out"],
           wins |-> 0, last |-> NoOp]

\* the slots of the receive buffer of the transceiver
BufferSize == 3

\* hal::can_message, as far as find() looks at it: the id, and the payload
\* for everything operator== compares besides
CanIds == { 0, 1 }
Payloads == { 0, 1 }
CanMessages == [id : CanIds, payload : Payloads]

\* hal::can_message message = {}
EmptyMessage == [id |-> 0, payload |-> 0]

\* find() has not returned since it was called last
NoResult == [returned |-> FALSE, has_value |-> FALSE, value |-> EmptyMessage]

\* the transceiver after construction (m_buffer{}, m_cursor = 0) and a
\* can_message_finder about to be constructed (m_receive_cursor = 0, m_id
\* from the argument of the constructor); cursor is the local of find(); log, found, scanned, seen, lapped and at_call record what was
\* received, what find() returned, how many slots it went past, the count of
\* received messages at its last read of receive_cursor(), and whether the
\* transceiver has come round to the finder's cursor
CfInit ==
    [m_buffer |-> [i \in 1 .. BufferSize |-> EmptyMessage],
     m_cursor |-> 0,
     m_id |-> 0,
     m_receive_cursor |-> 0,
     pc |-> "new",
     cursor |-> 0,
     result |-> NoResult,
     log |-> << >>,
     found |-> << >>,
     scanned |-> 0,
     seen |-> 0,
     lapped |-> "no",
     at_call |-> "no"]

\* no transaction of the bit_bang_i2c has been made
BbIdle == [called |-> FALSE, p_data_out |-> << >>, in_len |-> 0,
           wa |-> "ack", wd |-> << >>, ra |-> "ack", rd |-> << >>,
           bus |-> << >>, err |-> "none", p_data_in |-> << >>]

\* the enumerator of src/include as far as SET_CONFIGURATION goes:
\* m_active_conf is None (nullptr) or the offset of the element of m_configs it
\* points at, value and pre are the last request and m_active_conf before
\* it, err the exception it ended with, aborted whether the program was
\* ended
LscInit == [m_active_conf |-> None, value |-> 0, pre |-> None,
            handled |-> FALSE, err |-> "none", aborted |-> FALSE]

\* no enumerator of src/include has been constructed
CtorIdle == [called |-> FALSE, p_starting_str_idx |-> 0, err |-> "none",
             device_idx |-> << >>, config_idx |-> << >>]

OthersInit ==
    /\ ctor = CtorIdle
    /\ lsc = LscInit
    /\ bb = BbIdle
    /\ sc = ScIdle
    /\ rq = RqIdle
    /\ leg = LegInit
    /\ lk = LkInit
    /\ cf = CfInit

\* the most notifications counted as not yet read: a count above it is kept
\* as it (one notification each can stand behind waiting_for_data,
\* m_has_setup_packet and a read that is about to be made)
MaxPending == 3

\* the count is not kept
NotCounted == [counted |-> FALSE, n |-> 0]

\* the endpoint called the receive callback
Notified == IF pending.counted
            THEN [pending EXCEPT !.n = Min(@ + 1, MaxPending)]
            ELSE pending

\* control_endpoint::read was called for a setup packet
ReadDone == IF pending.counted
            THEN [pending EXCEPT !.n = @ - 1]
            ELSE pending

\* the enumerator, its endpoint and its interfaces after construction
EnumeratorInit ==
    /\ OthersInit
    /\ topo \in [Configs -> Shapes]
    /\ m_configs = [c \in Configs |-> ConfigInit(Len(topo[c]))]
    /\ m_device = DeviceInit
    /\ ifc = [i \in IfaceIds |-> IfaceInit]
    /\ m_active_conf = 0
    /\ m_has_setup_packet = FALSE
    /\ m_iface_for_str_desc = << >>
    /\ ep = [connected |-> FALSE, address |-> 0, callback |-> "none"]
    /\ pc = "idle"
    /\ waiting_for_data = TRUE
    /\ done = NoDone
    /\ selected = None
    /\ pass = [n |-> 0, first |-> << >>, end_str |-> 0,
               emitted_by |-> [c \in Configs |-> << >>]]

Init ==
    /\ EnumeratorInit
    /\ pending = NotCounted

\* the fields of the enumerator and the endpoint a request handler changed
Apply(ctx) ==
    /\ m_active_conf' = ctx.active
    /\ m_iface_for_str_desc' = ctx.cache
    /\ m_device' = ctx.dev
    /\ ep' = [ep EXCEPT !.address = ctx.address]
    /\ selected' = ctx.selected

\* enumerate(), from the call to the connect(true) before the request loop
CallEnumerate ==
    /\ UNCHANGED others
    /\ UNCHANGED pending
    /\ pc = "idle"
    /\ LET f == Finalize IN
       /\ m_active_conf' = 0
       /\ m_device' = set_num_configurations(m_device, NumConfigs)
       /\ m_configs' = f.cfgs
       /\ ifc' = f.ifs
       /\ pass' = [n |-> Min(pass.n + 1, 2),
                   first |-> IF pass.n = 0
                             THEN << f.cfgs, f.ifs >>
                             ELSE pass.first,
                   end_str |-> f.cur_str,
                   emitted_by |-> f.emitted_by]
    /\ waiting_for_data' = TRUE
    /\ ep' = [ep EXCEPT !.callback = "enum", !.connected = TRUE]
    /\ pc' = "enum_wait"
    /\ done' = [NoDone EXCEPT
                  !.op = "enumerate",
                  !.phase = "enumerate",
                  !.pre_active = m_active_conf,
                  !.connects = IF m_active_conf # 0
                               THEN << FALSE, TRUE >>
                               ELSE << TRUE >>]
    /\ selected' = None
    /\ UNCHANGED << topo, m_has_setup_packet, m_iface_for_str_desc >>

\* the endpoint has received a setup packet and calls the registered
\* callback; what the packet holds is seen by the read that follows
Interrupt ==
    /\ UNCHANGED others
    /\ pending' = Notified
    /\ ep.connected
    /\ ep.callback # "none"
    /\ IF ep.callback = "steady"
       THEN /\ m_has_setup_packet' = TRUE
            /\ UNCHANGED waiting_for_data
       ELSE /\ UNCHANGED m_has_setup_packet
            /\ IF pc \in {"enum_wait", "enum_read", "enum_swap"}
               THEN waiting_for_data' = FALSE
               ELSE waiting_for_data' \in {waiting_for_data, FALSE}
    /\ done' = NoDone
    /\ UNCHANGED << topo, m_configs, m_device, ifc, m_active_conf,
                    m_iface_for_str_desc, ep, pc, selected, pass >>

\* enumerate(): the wait loop ends and the flag is set again
EnumWake ==
    /\ UNCHANGED others
    /\ UNCHANGED pending
    /\ pc = "enum_wait"
    /\ ~waiting_for_data
    /\ waiting_for_data' = TRUE
    /\ pc' = "enum_read"
    /\ done' = NoDone
    /\ UNCHANGED << topo, m_configs, m_device, ifc, m_active_conf,
                    m_has_setup_packet, m_iface_for_str_desc, ep, selected,
                    pass >>

\* finished_enumeration left false whatever the request
FinishedEnumerationNever(req) == FALSE

\* enumerate(): finished_enumeration after a request was handled
FinishedEnumeration(req) == req.request = ReqSetConfiguration

\* enumerate(): one pass of the request loop, from the read on
EnumProcess ==
    /\ UNCHANGED others
    /\ pending' = ReadDone
    /\ pc = "enum_read"
    /\ \E req \in Requests(pass.end_str) :
       IF req.n = 0
       THEN /\ pc' = "enum_wait"
            /\ done' = [NoDone EXCEPT !.op = "skipped", !.phase = "enumerate",
                                      !.req = req,
                                      !.pre_active = m_active_conf]
            /\ UNCHANGED << m_active_conf, m_iface_for_str_desc, m_device, ep,
                            selected >>
       ELSE IF req.n # size_std_req
       THEN /\ pc' = "idle"
            /\ done' = DoneOf("enumerate", req, Throw(Ctx0, "message_size"))
            /\ UNCHANGED << m_active_conf, m_iface_for_str_desc, m_device, ep,
                            selected >>
       ELSE IF req.recipient # "device"
       THEN /\ pc' = "idle"
            /\ done' = DoneOf("enumerate", req, Throw(Ctx0, "not_connected"))
            /\ UNCHANGED << m_active_conf, m_iface_for_str_desc, m_device, ep,
                            selected >>
       ELSE LET ctx == HandleStandardDeviceRequest(Ctx0, req) IN
            /\ Apply(ctx)
            /\ done' = DoneOf("enumerate", req, ctx)
            /\ pc' = IF ctx.err # "none" THEN "idle"
                     ELSE IF FinishedEnumeration(req)
                     THEN "enum_swap"
                     ELSE "enum_wait"
    /\ UNCHANGED << topo, m_configs, ifc, m_has_setup_packet,
                    waiting_for_data, pass >>

\* enumerate(): after SET_CONFIGURATION the receive callback is replaced and
\* enumerate() returns
EnumSwap ==
    /\ UNCHANGED others
    /\ UNCHANGED pending
    /\ pc = "enum_swap"
    /\ ep' = [ep EXCEPT !.callback = "steady"]
    /\ pc' = "idle"
    /\ UNCHANGED << topo, m_configs, m_device, ifc, m_active_conf,
                    m_has_setup_packet, m_iface_for_str_desc,
                    waiting_for_data, done, selected, pass >>

\* resume_ctrl_transaction() is called
CallResume ==
    /\ UNCHANGED others
    /\ UNCHANGED pending
    /\ pc = "idle"
    /\ pc' = "resume_wait"
    /\ UNCHANGED << topo, m_configs, m_device, ifc, m_active_conf,
                    m_has_setup_packet, m_iface_for_str_desc, ep,
                    waiting_for_data, done, selected, pass >>

\* resume_ctrl_transaction(): the wait loop ends and the flag is cleared
ResumeWake ==
    /\ UNCHANGED others
    /\ UNCHANGED pending
    /\ pc = "resume_wait"
    /\ m_has_setup_packet
    /\ m_has_setup_packet' = FALSE
    /\ pc' = "resume_read"
    /\ done' = NoDone
    /\ UNCHANGED << topo, m_configs, m_device, ifc, m_active_conf,
                    m_iface_for_str_desc, ep, waiting_for_data, selected,
                    pass >>

\* resume_ctrl_transaction(): from the read to the return
ResumeProcess ==
    /\ UNCHANGED others
    /\ pending' = ReadDone
    /\ pc = "resume_read"
    /\ \E req \in Requests(pass.end_str) :
       LET ctx == ResumeDispatch(Ctx0, req) IN
       /\ Apply(ctx)
       /\ done' = DoneOf("resume", req, ctx)
    /\ pc' = "idle"
    /\ UNCHANGED << topo, m_configs, ifc, m_has_setup_packet,
                    waiting_for_data, pass >>

\* get_active_configuration() is called
CallGetActiveConfiguration ==
    /\ UNCHANGED others
    /\ UNCHANGED pending
    /\ pc = "idle"
    /\ done' = [NoDone EXCEPT
                  !.op = "get_active",
                  !.pre_active = m_active_conf,
                  !.err = IF m_active_conf = 0
                          THEN "operation_not_permitted"
                          ELSE "none"]
    /\ UNCHANGED << topo, m_configs, m_device, ifc, m_active_conf,
                    m_has_setup_packet, m_iface_for_str_desc, ep, pc,
                    waiting_for_data, selected, pass >>

Next ==
    \/ CallEnumerate
    \/ Interrupt
    \/ EnumWake
    \/ EnumProcess
    \/ EnumSwap
    \/ CallResume
    \/ ResumeWake
    \/ ResumeProcess
    \/ CallGetActiveConfiguration

Spec == Init /\ [][Next]_vars

\* ------------------------------------------------------------------ claims

\* the last call handled a GET_DESCRIPTOR(string) request
StringRequestDone ==
    /\ done.op = "request"
    /\ done.req.n = size_std_req
    /\ done.req.recipient = "device"
    /\ DetermineStandardRequest(done.req) = ReqGetDescriptor
    /\ DescTypeOf(done.req) = DescString

IfacesOf(c) == { topo[c][k] : k \in 1 .. Len(topo[c]) }

ConfiguredIfaces == UNION { IfacesOf(c) : c \in Configs }

\* interface i answers write_string_descriptor for index idx
Owns(i, idx) == WriteStringDescriptor(i, ifc[i], idx).res

\* the string indexes of the device and the configurations
DeviceStrIdxs == { m_device[13], m_device[14], m_device[15] }
ConfigStrIdxs == { configuration_index(m_configs[c]) : c \in Configs }

\* C1: after enumerate() a GET_DESCRIPTOR(string) request for an index at or
\* above the device/configuration bound (starting offset + 3 + number of
\* configurations) that an interface owns is resolved on the interface path
\* by an interface's write_string_descriptor, never rejected on the
\* device/configuration path.
C1_InterfaceStringOnInterfacePath ==
    ( /\ StringRequestDone
      /\ DescIdxOf(done.req) >= device_str_start + 3 + NumConfigs
      /\ \E i \in ConfiguredIfaces : Owns(i, DescIdxOf(done.req)) )
    => ( /\ done.path = "iface"
         /\ done.err = "none"
         /\ done.emitted # << >> )

\* C2: a GET_DESCRIPTOR(string, index 0) request is answered with the 4-byte
\* language descriptor {4, 3, LANGID low, LANGID high} in every phase, inside
\* enumerate() and in resume_ctrl_transaction().
C2_LanguageDescriptorEveryPhase ==
    (StringRequestDone /\ DescIdxOf(done.req) = 0)
    => ( /\ done.err = "none"
         /\ DataOf(done.out) = << 4, 3, LangStr % 256, LangStr \div 256 >> )

\* no device string, configuration name or interface string has index idx
NoStringMatches(idx) ==
    /\ idx # 0
    /\ idx \notin DeviceStrIdxs
    /\ idx \notin ConfigStrIdxs
    /\ \A i \in ConfiguredIfaces : ~Owns(i, idx)

\* C3: a GET_DESCRIPTOR(string) request whose index matches no device string,
\* no configuration name and no interface-owned string fails with
\* argument_out_of_domain, inside the device/configuration range and above it.
C3_UnknownStringFails ==
    (StringRequestDone /\ NoStringMatches(DescIdxOf(done.req)))
    => done.err = "argument_out_of_domain"

\* the last call handled a well-formed standard request `request` sent to the
\* device
StdRequestDone(request) ==
    /\ done.op = "request"
    /\ done.req.n = size_std_req
    /\ done.req.recipient = "device"
    /\ DetermineStandardRequest(done.req) = request

\* the string enumerate() assigned to index idx of the device/configuration
\* range: the device strings at the indexes held by the device descriptor,
\* configuration c's name at the index held by its string-index field
AssignedString(idx) ==
    IF idx = m_device[13] THEN manufacturer_str
    ELSE IF idx = m_device[14] THEN product_str
    ELSE IF idx = m_device[15] THEN serial_number_str
    ELSE ConfName(CHOOSE c \in Configs :
                    configuration_index(m_configs[c]) = idx)

\* header (length = byte length + 2, type 3) followed by the string bytes
StringDescriptor(sv) == << Len(sv) + 2, DescString >> \o sv

\* C4: for every string index in the device/configuration range,
\* GET_DESCRIPTOR(string) returns the first min(wLength, full length) bytes
\* of the descriptor of the string enumerate() assigned to that index.
C4_DeviceConfigStringDescriptor ==
    ( /\ StringRequestDone
      /\ DescIdxOf(done.req) \in DeviceStrIdxs \cup ConfigStrIdxs )
    => ( /\ done.err = "none"
         /\ LET full == StringDescriptor(AssignedString(DescIdxOf(done.req)))
            IN DataOf(done.out) =
                 First(full, Min(done.req.length, Len(full))) )

\* C4, inside enumerate() only: the statement holds for the requests that
\* enumerate() services
C4_InsideEnumerate ==
    (done.phase = "enumerate") => C4_DeviceConfigStringDescriptor

\* C5: GET_DESCRIPTOR(configuration, index 0) with wLength = 2 is answered
\* with exactly two data bytes, the little-endian total length enumerate()
\* computed, and no interface descriptor bytes.
C5_ConfigurationLengthProbe ==
    ( /\ StdRequestDone(ReqGetDescriptor)
      /\ DescTypeOf(done.req) = DescConfiguration
      /\ DescIdxOf(done.req) = 0
      /\ done.req.length = 2 )
    => ( /\ done.err = "none"
         /\ DataOf(done.out) = ToLeU16(total_length(m_configs[1])) )

\* C6: after the finalization pass of enumerate() every configuration's
\* total_length equals the configuration header size plus the byte length of
\* everything its own interfaces emitted through write_descriptors.
C6_TotalLength ==
    (pass.n >= 1)
    => \A c \in Configs :
         total_length(m_configs[c]) =
           config_desc_size + Len(pass.emitted_by[c])

C6_Witness ==
    /\ pass.n >= 1
    /\ \E c \in Configs : c > 1 /\ Len(pass.emitted_by[c]) > 0
                          /\ Len(pass.emitted_by[1]) > 0

\* the 18-byte device descriptor in USB field order
DeviceDescriptor ==
    << device_desc_size, DescDevice >>
    \o ToLeU16(bcd_usb)
    \o << device_class, device_subclass, device_protocol, EndpointSize >>
    \o ToLeU16(id_vendor) \o ToLeU16(id_product) \o ToLeU16(bcd_device)
    \o << manufacturer_idx, product_idx, serial_number_idx, NumConfigs >>

\* C7: GET_DESCRIPTOR(device) with requested length L, at any point of
\* enumeration, writes exactly the first min(L, 18) bytes of the device
\* descriptor, with bMaxPacketSize0 the endpoint's packet size and
\* bNumConfigurations the number of configurations.
C7_DeviceDescriptor ==
    (StdRequestDone(ReqGetDescriptor) /\ DescTypeOf(done.req) = DescDevice)
    => ( /\ done.err = "none"
         /\ Len(DeviceDescriptor) = device_desc_size
         /\ DataOf(done.out) =
              First(DeviceDescriptor, Min(done.req.length, device_desc_size)) )

C7_Witness ==
    /\ StdRequestDone(ReqGetDescriptor)
    /\ DescTypeOf(done.req) = DescDevice
    /\ done.phase = "enumerate"
    /\ ep.address = 0
    /\ done.req.length = 8
    /\ Len(DataOf(done.out)) = 8

\* the configuration values enumerate() assigned
AssignedValues == { configuration_value(m_configs[c]) : c \in Configs }

\* C8: SET_CONFIGURATION and GET_CONFIGURATION use one numbering: after
\* SET_CONFIGURATION(v) for an assigned value v the active configuration is
\* the one whose configuration value is v, and a following GET_CONFIGURATION
\* is answered with the single byte v.
C8_OneNumbering ==
    /\ ( /\ StdRequestDone(ReqSetConfiguration)
         /\ done.req.value \in AssignedValues )
       => ( /\ done.err = "none"
            /\ m_active_conf # 0
            /\ configuration_value(m_configs[m_active_conf]) = done.req.value )
    /\ (m_active_conf # 0)
       => configuration_value(m_configs[m_active_conf]) = selected
    /\ (StdRequestDone(ReqGetConfiguration) /\ selected # None)
       => (done.err = "none" /\ done.out = << << selected >> >>)

C8_Witness ==
    /\ StdRequestDone(ReqGetConfiguration)
    /\ selected = 2
    /\ done.out = << << 2 >> >>

\* the last call was an interface level dispatch of resume_ctrl_transaction()
InterfaceDispatchDone ==
    /\ done.op = "request"
    /\ done.phase = "resume"
    /\ done.req.type # "invalid"
    /\ done.req.recipient # "device"
    /\ ~( /\ DetermineStandardRequest(done.req) = ReqGetDescriptor
          /\ DescTypeOf(done.req) = DescString )

\* C9: while no configuration is active, GET_CONFIGURATION, the interface
\* dispatch of resume_ctrl_transaction() and get_active_configuration() fail
\* with operation_not_permitted, write nothing to the endpoint and leave the
\* active configuration null.
C9_NotPermittedWithoutConfiguration ==
    ( /\ done.pre_active = 0
      /\ \/ StdRequestDone(ReqGetConfiguration)
         \/ InterfaceDispatchDone
         \/ done.op = "get_active" )
    => ( /\ done.err = "operation_not_permitted"
         /\ done.out = << >>
         /\ m_active_conf = 0 )

C9_Witness ==
    /\ done.pre_active = 0
    /\ InterfaceDispatchDone
    /\ done.err = "operation_not_permitted"

\* C10: re-enumeration is idempotent: enumerate() called from the configured
\* state clears the active configuration and disconnects the endpoint before
\* it reconnects, and the indexes, values, counts and total lengths of the
\* second pass equal those of the first.
C10_ReenumerationIdempotent ==
    /\ (done.op = "enumerate" /\ done.pre_active # 0)
       => (m_active_conf = 0 /\ done.connects = << FALSE, TRUE >>
           /\ ep.connected)
    /\ (pass.n >= 2) => (<< m_configs, ifc >> = pass.first)

C10_Witness ==
    /\ done.op = "enumerate"
    /\ done.pre_active # 0
    /\ pass.n >= 2
    /\ \E c \in Configs : Len(topo[c]) > 0

\* ------------------------------------------ make_sub_scatter_bytes on its own

\* the most spans a call is given
MaxSpans == 3
\* the most bytes one span holds
MaxSpanLen == 3

\* the span lengths of a call: up to MaxSpans spans, empty ones included
LenLists == UNION { [1 .. k -> 0 .. MaxSpanLen] : k \in 0 .. MaxSpans }

RECURSIVE SumLens(_, _)
\* the bytes in the first k spans of lengths lens
SumLens(lens, k) == IF k = 0 THEN 0 ELSE lens[k] + SumLens(lens, k - 1)

\* spans of the given lengths over one buffer whose bytes are 1, 2, 3, ...
SpansOf(lens) ==
    [i \in 1 .. Len(lens) |->
       [j \in 1 .. lens[i] |-> SumLens(lens, i - 1) + j]]

\* a caller builds spans and calls make_sub_scatter_bytes(p_count, spans...)
ScatterCall ==
    /\ ~sc.called
    /\ \E lens \in LenLists :
       \E p_count \in 0 .. MaxSpans * MaxSpanLen + 1 :
         sc' = [called |-> TRUE, p_count |-> p_count, spans |-> SpansOf(lens),
                res |-> MakeSubScatterBytes(p_count, SpansOf(lens))]
    /\ UNCHANGED but_sc

\* one system for the specifications of the other components
QuietInit ==
    /\ Init
    /\ topo = [c \in Configs |-> << >>]

ScatterInit == QuietInit

\* the caller is done with the result
ScatterReturn ==
    /\ sc.called
    /\ sc' = ScIdle
    /\ UNCHANGED but_sc

ScatterNext ==
    \/ ScatterCall
    \/ ScatterReturn

SpecScatter == ScatterInit /\ [][ScatterNext]_vars

\* C11: the spans make_sub_scatter_bytes(n, spans...) returns, concatenated,
\* are exactly the first min(n, total length) bytes of the concatenated input;
\* their count never exceeds the number of input spans; each is the start of
\* the input span at its position; and when n meets or exceeds the total all
\* spans are returned unmodified. n = 0, empty spans and n on a span boundary
\* are among the calls.
C11_SubScatterPrefix ==
    sc.called =>
      LET total == ScatterSpanSize(sc.spans) IN
      /\ Flatten(sc.res) = First(Flatten(sc.spans), Min(sc.p_count, total))
      /\ Len(sc.res) <= Len(sc.spans)
      /\ \A i \in 1 .. Len(sc.res) :
           /\ Len(sc.res[i]) <= Len(sc.spans[i])
           /\ sc.res[i] = First(sc.spans[i], Len(sc.res[i]))
      /\ (sc.p_count >= total) => (sc.res = sc.spans)

\* a call whose count ends inside a span, after an empty span
C11_Witness ==
    /\ sc.called
    /\ Len(sc.spans) = 3
    /\ sc.spans[1] = << >>
    /\ Len(sc.spans[2]) = 2
    /\ sc.p_count = 3
    /\ Flatten(sc.res) = << 1, 2, 3 >>
    /\ Len(sc.spans[3]) > 1

\* ------------------------------------- standard request classification

\* the two type bits of bmRequestType
RequestTypes == {"standard", "class", "vendor", "invalid"}
\* bRequest, a byte
RequestCodes == 0 .. 255

\* the request codes standard_request_types names
DefinedRequests == {0, 1, 3, 5, 6, 7, 8, 9, 10, 17, 18}

\* a setup_request is built and get_standard_request() is called on it
ClassifyCall ==
    /\ ~rq.called
    /\ \E type \in RequestTypes, request \in RequestCodes :
         rq' = [called |-> TRUE, type |-> type, request |-> request,
                result |-> DetermineStandardRequest(
                             [type |-> type, request |-> request])]
    /\ UNCHANGED but_rq

\* the caller is done with the result
ClassifyReturn ==
    /\ rq.called
    /\ rq' = RqIdle
    /\ UNCHANGED but_rq

ClassifyInit == QuietInit

ClassifyNext ==
    \/ ClassifyCall
    \/ ClassifyReturn

SpecClassify == ClassifyInit /\ [][ClassifyNext]_vars

\* C12: classification returns invalid for every request whose type bits are
\* not standard and for every request code that is not a defined standard
\* code (0x00, 0x01, 0x03, 0x05..0x0A, 0x11, 0x12); a defined code with
\* standard type bits classifies as its named request.
C12_Classification ==
    rq.called =>
      rq.result = IF rq.type = "standard" /\ rq.request \in DefinedRequests
                  THEN rq.request
                  ELSE ReqInvalid

\* C12, for the codes the code tests by name: a non-standard type, code 0x04
\* and every code above 0x12 classify as invalid, a defined code with standard
\* type bits as itself
C12_TestedCodes ==
    ( /\ rq.called
      /\ \/ rq.type # "standard"
         \/ rq.request = 4
         \/ rq.request > 18
         \/ rq.request \in DefinedRequests )
    => C12_Classification

\* ------------------------------------------------- framing of setup packets

\* the last step was a read of the request loop of enumerate() or of
\* resume_ctrl_transaction() that returned a byte count other than 8
ShortReadDone(phase) ==
    /\ done.op \in {"request", "skipped"}
    /\ done.phase = phase
    /\ done.req.n # size_std_req

\* the call ended with a message-size error and the packet reached no handler:
\* nothing was written, no interface was asked, the enumerator is as before
FramingError ==
    /\ done.err = "message_size"
    /\ done.out = << >>
    /\ done.asked = << >>
    /\ m_active_conf = done.pre_active

\* C13: in the request loop of enumerate(), whenever the control endpoint
\* read returns a byte count other than exactly 8, 0 included, enumerate()
\* fails with a message-size error and the packet is not dispatched.
C13_FramingErrorInEnumerate ==
    ShortReadDone("enumerate") => FramingError

\* C13, for the byte counts other than 0 and 8
C13_NonEmptyShortRead ==
    (ShortReadDone("enumerate") /\ done.req.n # 0) => FramingError

\* C14: in resume_ctrl_transaction() a setup packet read that returns fewer
\* than 8 bytes is reported to the caller as a message-size error; the short
\* packet is never decoded and never dispatched to a handler or an interface.
C14_FramingErrorInResume ==
    ShortReadDone("resume") => FramingError

\* ------------------------------------------------- interface level requests

\* the interfaces of the configuration that was active when the last call
\* began
ActiveIfaces == topo[done.pre_active]

\* C15: for a non-device-recipient request in resume_ctrl_transaction() the
\* interfaces of the active configuration are offered the request through
\* handle_request in list order, and no interface after the first one that
\* returns handled is asked.
C15_DispatchOrder ==
    (InterfaceDispatchDone /\ done.pre_active # 0)
    => /\ Len(done.asked) <= Len(ActiveIfaces)
       /\ done.asked = First(ActiveIfaces, Len(done.asked))
       /\ \A k \in 1 .. Len(done.asked) - 1 : ~HandleRequest(done.asked[k])
       /\ IF \E k \in 1 .. Len(ActiveIfaces) : HandleRequest(ActiveIfaces[k])
          THEN /\ done.handled
               /\ done.asked # << >>
               /\ HandleRequest(done.asked[Len(done.asked)])
          ELSE /\ ~done.handled
               /\ done.asked = ActiveIfaces

\* the first interface handled the request and the one after it was not asked
C15_Witness ==
    /\ InterfaceDispatchDone
    /\ done.pre_active # 0
    /\ Len(ActiveIfaces) = 2
    /\ done.asked = << ActiveIfaces[1] >>
    /\ done.handled

InEnumerate == pc \in {"enum_wait", "enum_read", "enum_swap"}

\* the request the loop of enumerate() just handled was a SET_CONFIGURATION
\* that succeeded
SetConfigurationSucceeded ==
    /\ StdRequestDone(ReqSetConfiguration)
    /\ done.phase = "enumerate"
    /\ done.err = "none"

\* C17: enumerate() returns normally only immediately after it has handled a
\* SET_CONFIGURATION request with success: at that return the active
\* configuration is non-null and the receive callback of the endpoint is the
\* one that sets the pending-setup flag; every other request keeps
\* enumerate() in its loop or ends it with an error.
C17_ReturnAfterSetConfiguration ==
    [][ /\ (pc = "enum_wait") => (pc' \in {"enum_wait", "enum_read"})
        /\ (pc = "enum_read" /\ pc' = "enum_swap")
           => (SetConfigurationSucceeded' /\ m_active_conf' # 0)
        /\ (pc = "enum_read" /\ pc' = "enum_wait")
           => (~SetConfigurationSucceeded' /\ done'.err = "none")
        /\ (pc = "enum_read" /\ pc' = "idle")
           => (done'.op = "request" /\ done'.err # "none")
        /\ (pc = "enum_read")
           => (pc' \in {"enum_read", "enum_swap", "enum_wait", "idle"})
        /\ (pc = "enum_swap")
           => /\ m_active_conf # 0
              /\ m_active_conf' = m_active_conf
              /\ pc' \in {"enum_swap", "idle"}
              /\ (pc' = "idle") => ep'.callback = "steady"
      ]_vars

\* enumerate() has returned after SET_CONFIGURATION(2)
C17_Witness ==
    /\ pc = "idle"
    /\ SetConfigurationSucceeded
    /\ done.req.value = 2
    /\ m_active_conf = 2
    /\ ep.callback = "steady"

\* ------------------------------------- notifications and reads, counted

\* one enumerator whose notifications and reads are counted
CountInit ==
    /\ EnumeratorInit
    /\ topo = [c \in Configs |-> << 1, 2 >>]
    /\ pending = [counted |-> TRUE, n |-> 0]

SpecCount == CountInit /\ [][Next]_vars

\* C18, enumerator of v5: at every point the number of setup packet reads of
\* enumerate() and resume_ctrl_transaction() is at most the number of
\* notifications the receive callback has delivered
C18_ReadsWithinNotificationsV5 ==
    pending.counted => pending.n >= 0

\* ------------------- resume_ctrl_transaction() of src/include (before v5)

\* the most notifications and the most reads of one behaviour
MaxEvents == 7

\* the endpoint calls the callback enumerate() registered last
LegacyInterrupt ==
    /\ leg.notified < MaxEvents
    /\ leg' = [leg EXCEPT !.m_has_setup_packet = TRUE, !.notified = @ + 1]
    /\ UNCHANGED but_leg

\* resume_ctrl_transaction() is called
LegacyCallResume ==
    /\ leg.pc = "idle"
    /\ leg' = [leg EXCEPT !.pc = "resume_wait"]
    /\ UNCHANGED but_leg

\* resume_ctrl_transaction(): the wait loop ends, the setup packet is read and
\* dispatched; no statement of the function or of the handlers it calls
\* writes m_has_setup_packet
LegacyResumeProcess ==
    /\ leg.pc = "resume_wait"
    /\ leg.m_has_setup_packet
    /\ leg.reads < MaxEvents
    /\ leg' = [leg EXCEPT !.pc = "idle", !.reads = @ + 1]
    /\ UNCHANGED but_leg

LegacyInit == QuietInit

LegacyNext ==
    \/ LegacyInterrupt
    \/ LegacyCallResume
    \/ LegacyResumeProcess

SpecLegacyResume == LegacyInit /\ [][LegacyNext]_vars

\* C18: one control transaction is processed per receive notification: in
\* enumerate() and in resume_ctrl_transaction() the wait flag is cleared after
\* the wait ends and before the setup packet is read, so at every point the
\* number of setup packet reads is at most the number of notifications the
\* endpoint callback has delivered.
C18_ReadsWithinNotifications ==
    /\ C18_ReadsWithinNotificationsV5
    /\ leg.reads <= leg.notified

\* ------------------------------------------------------- atomic_spin_lock

\* std::atomic_flag::test_and_set: the value before, and the flag set
TestAndSet(flag) == [was_set |-> flag, flag |-> TRUE]

\* os_lock: the loop ends when test_and_set returns false
LockAcquired(was_set) == ~was_set

\* a try_lock that hands on what test_and_set returned
TryLockResultNotInverted(was_set) == was_set

\* os_try_lock: not m_flag.test_and_set()
TryLockResult(was_set) == ~was_set

\* the threads that hold the lock: lock() returned, or try_lock() returned
\* true, and unlock() was not called since
Holders == { t \in Threads : lk.pc[t] = "in" }

\* thread t calls lock()
CallLock(t) ==
    /\ lk.pc[t] = "out"
    /\ lk' = [lk EXCEPT !.pc[t] = "lock"]
    /\ UNCHANGED but_lk

\* os_lock: one pass of the loop, lock() returns when the loop ends
LockSpin(t) ==
    /\ lk.pc[t] = "lock"
    /\ LET r == TestAndSet(lk.m_flag) IN
       lk' = IF LockAcquired(r.was_set)
             THEN [lk EXCEPT !.m_flag = r.flag,
                             !.pc[t] = "in",
                             !.wins = Min(@ + 1, 2),
                             !.last = [op |-> "lock", t |-> t,
                                       was_set |-> r.was_set, ret |-> TRUE]]
             ELSE [lk EXCEPT !.m_flag = r.flag]
    /\ UNCHANGED but_lk

\* thread t calls try_lock(), holding the lock or not
TryLock(t) ==
    /\ lk.pc[t] \in {"out", "in"}
    /\ LET r == TestAndSet(lk.m_flag)
           ret == TryLockResult(r.was_set)
       IN lk' = [lk EXCEPT !.m_flag = r.flag,
                           !.pc[t] = IF ret THEN "in" ELSE @,
                           !.wins = IF ret THEN Min(@ + 1, 2) ELSE @,
                           !.last = [op |-> "try_lock", t |-> t,
                                     was_set |-> r.was_set, ret |-> ret]]
    /\ UNCHANGED but_lk

\* a thread that holds the lock calls unlock(): m_flag.clear()
Unlock(t) ==
    /\ lk.pc[t] = "in"
    /\ lk' = [lk EXCEPT !.m_flag = FALSE,
                        !.pc[t] = "out",
                        !.wins = 0,
                        !.last = [op |-> "unlock", t |-> t,
                                  was_set |-> lk.m_flag, ret |-> FALSE]]
    /\ UNCHANGED but_lk

LockInit == QuietInit

LockNext ==
    \E t \in Threads :
       \/ CallLock(t)
       \/ LockSpin(t)
       \/ TryLock(t)
       \/ Unlock(t)

\* a thread inside the loop of os_lock keeps running it
SpecLock ==
    /\ LockInit
    /\ [][LockNext]_vars
    /\ \A t \in Threads : WF_vars(LockSpin(t))

\* at most one thread holds the lock, the flag is set exactly while one does,
\* try_lock() returns false while the lock is held and true otherwise, and
\* one caller at most has taken the lock since the last unlock()
LockInvariant ==
    /\ Cardinality(Holders) <= 1
    /\ lk.m_flag <=> (Holders # {})
    /\ lk.wins <= 1
    /\ (lk.last.op = "try_lock") => (lk.last.ret = ~lk.last.was_set)
    /\ (lk.last.op = "lock") => ~lk.last.was_set
    /\ (lk.last.op \in {"lock", "try_lock"} /\ lk.last.ret)
       => Holders = {lk.last.t}

\* C19: atomic_spin_lock gives mutual exclusion under any interleaving of
\* threads: at most one thread holds the lock at a time; lock() does not
\* return, and try_lock() does not return true, while another thread holds
\* the lock; a free lock with a thread inside lock() is taken; try_lock()
\* returns false while the lock is held and true for exactly one caller after
\* each unlock().
C19_MutualExclusion ==
    /\ []LockInvariant
    /\ [][\A t \in Threads :
            (lk.pc[t] # "in" /\ lk'.pc[t] = "in")
            => (Holders = {} /\ ~lk.m_flag)]_vars
    /\ \A t \in Threads :
         (lk.pc[t] = "lock" /\ ~lk.m_flag) ~> lk.m_flag

\* one thread holds the lock, one is inside lock(), and the try_lock() of a
\* third has just returned false
C19_Witness ==
    \E t, u, v \in Threads :
      /\ t # u /\ u # v /\ t # v
      /\ lk.pc[t] = "in"
      /\ lk.pc[u] = "lock"
      /\ lk.last = [op |-> "try_lock", t |-> v, was_set |-> TRUE,
                    ret |-> FALSE]

\* ------------------------------------------- can_message_finder::find()

\* the most messages the transceiver receives in one behaviour
MaxMessages == 5

\* driver_receive_cursor()
ReceiveCursor(f) == f.m_cursor % BufferSize

\* buffer[m_receive_cursor]
SlotAtCursor(f) == f.m_buffer[f.m_receive_cursor + 1]

\* add_to_received_messages(p_message): the slot under the cursor is
\* written and the cursor moves on. The transceiver has come round to the
\* finder's cursor when it is BufferSize slots ahead of it, "exact" when
\* that happens for the first time and outside find()
AddToReceivedMessages(f, p_message) ==
    LET lag == (f.m_cursor + 1) - f.scanned
    IN  [f EXCEPT !.m_buffer[(f.m_cursor % BufferSize) + 1] = p_message,
                  !.m_cursor = @ + 1,
                  !.log = Append(@, p_message),
                  !.lapped = IF lag < BufferSize THEN @
                             ELSE IF /\ lag = BufferSize
                                     /\ @ = "no"
                                     /\ f.pc # "loop"
                                  THEN "exact"
                                  ELSE "more"]

\* return message, the cursor left where it was
FindReturnNoAdvance(f, message) ==
    [f EXCEPT !.pc = "idle",
              !.result = [returned |-> TRUE, has_value |-> TRUE,
                          value |-> message],
              !.found = Append(@, message)]

\* return message
FindReturn(f, message) ==
    [f EXCEPT !.m_receive_cursor = (@ + 1) % BufferSize,
              !.pc = "idle",
              !.result = [returned |-> TRUE, has_value |-> TRUE,
                          value |-> message],
              !.found = Append(@, message),
              !.scanned = @ + 1]

\* one evaluation of the condition of the loop of find() and, when it holds,
\* one run of its body; first, message and copy are what the three reads of
\* buffer[m_receive_cursor] gave (the id compared with m_id, message, copy),
\* f is the state after the last of them
FindIteration(f, first, message, copy) ==
    IF f.m_receive_cursor = f.cursor
    THEN [f EXCEPT !.pc = "idle",
                   !.result = [returned |-> TRUE, has_value |-> FALSE,
                               value |-> EmptyMessage]]
    ELSE IF /\ f.m_id = first.id
            /\ copy = message
            /\ copy.id = f.m_id
         THEN FindReturn(f, message)
         ELSE [f EXCEPT !.cursor = ReceiveCursor(f),
                        !.seen = f.m_cursor,
                        !.m_receive_cursor = (@ + 1) % BufferSize,
                        !.scanned = @ + 1]

\* can_message_finder(p_transceiver, p_id)
CanConstruct(p_id) ==
    /\ cf.pc = "new"
    /\ cf' = [cf EXCEPT !.pc = "idle", !.m_id = p_id]
    /\ UNCHANGED but_cf

\* the transceiver receives a message, at any point where find() is not
\* between two of its reads of one slot
CanReceive(p_message) ==
    /\ cf.m_cursor < MaxMessages
    /\ cf' = AddToReceivedMessages(cf, p_message)
    /\ UNCHANGED but_cf

\* find() is called: receive_buffer() and receive_cursor() are read
FindCall ==
    /\ cf.pc = "idle"
    /\ cf' = [cf EXCEPT !.pc = "loop",
                        !.cursor = ReceiveCursor(cf),
                        !.seen = cf.m_cursor,
                        !.result = NoResult,
                        !.at_call = cf.lapped,
                        !.lapped = IF @ = "exact" THEN "more" ELSE @]
    /\ UNCHANGED but_cf

\* one iteration of the loop of find(), no message received during it
FindStep ==
    /\ cf.pc = "loop"
    /\ cf' = FindIteration(cf, SlotAtCursor(cf), SlotAtCursor(cf),
                           SlotAtCursor(cf))
    /\ UNCHANGED but_cf

\* one iteration of the loop of find() with a message received between the
\* read of the id and the read of message (k = 1) or between the read of
\* message and the read of copy (k = 2). With more than one slot a second
\* message received in the same iteration goes to another slot, which is a
\* reception before or after the iteration
FindStepInterrupted(p_message, k) ==
    /\ cf.pc = "loop"
    /\ cf.m_receive_cursor # cf.cursor
    /\ cf.m_cursor < MaxMessages
    /\ LET g == AddToReceivedMessages(cf, p_message)
       IN  cf' = FindIteration(g, SlotAtCursor(cf),
                               IF k = 1 THEN SlotAtCursor(g)
                                        ELSE SlotAtCursor(cf),
                               SlotAtCursor(g))
    /\ UNCHANGED but_cf

CanInit == QuietInit

CanNext ==
    \/ \E p_id \in CanIds : CanConstruct(p_id)
    \/ \E p_message \in CanMessages : CanReceive(p_message)
    \/ FindCall
    \/ FindStep
    \/ \E p_message \in CanMessages, k \in { 1, 2 } :
          FindStepInterrupted(p_message, k)

SpecCan == CanInit /\ [][CanNext]_vars

\* the messages of log with the id searched for, in the order of log
RECURSIVE Matching(_, _)
Matching(log, id) ==
    IF log = << >> THEN << >>
    ELSE IF Head(log).id = id
         THEN << Head(log) >> \o Matching(Tail(log), id)
         ELSE Matching(Tail(log), id)

\* C20: successive find() calls return the received messages whose id equals
\* the searched id in reception order, each at most once, and return nullopt
\* once the finder's cursor has caught up with the transceiver's receive
\* cursor, provided the receive cursor has not lapped the finder's cursor;
\* when the buffer has been lapped by exactly its size, find() returns
\* nullopt.
C20_FindInReceptionOrder ==
    /\ (cf.lapped = "no")
       => /\ cf.found = Matching(SubSeq(cf.log, 1, cf.scanned), cf.m_id)
          /\ (cf.result.returned /\ cf.result.has_value)
             => cf.result.value = cf.found[Len(cf.found)]
          /\ (cf.result.returned /\ ~cf.result.has_value)
             => cf.scanned = cf.seen
    /\ (cf.at_call = "exact" /\ cf.result.returned)
       => ~cf.result.has_value

\* without being lapped the finder has gone once round the buffer, has
\* returned two messages and passed one with another id, and its last call
\* returned nullopt with nothing left to read
C20_Witness ==
    /\ cf.lapped = "no"
    /\ cf.scanned > BufferSize
    /\ cf.scanned = cf.m_cursor
    /\ Len(cf.found) >= 2
    /\ Len(cf.found) < cf.scanned
    /\ cf.result.returned
    /\ ~cf.result.has_value

\* find() was called with the transceiver exactly one buffer ahead, after it
\* had returned a message, and returned nullopt
C20_ExactLap ==
    /\ cf.at_call = "exact"
    /\ cf.result.returned
    /\ ~cf.result.has_value
    /\ Len(cf.found) >= 1
    /\ cf.m_cursor - cf.scanned = BufferSize

\* --------------------------------------- bit_bang_i2c::driver_transaction()

\* the most bytes written and the most bytes read in one transaction
MaxBytes == 2

\* what the peripheral does with a byte the controller writes: it pulls sda
\* low in the ninth clock (ack), leaves it high (nack), or holds scl low
\* until p_timeout() throws
WriteResponses == { "ack", "nack", "timeout" }

\* what the peripheral does while the controller reads a byte and answers
\* it: the byte it puts on sda, and whether it holds scl low in the clock
\* of the answer until p_timeout() throws
ReadResponses == [byte : { 0, 255 }, resp : { "ok", "timeout" }]

\* the state of a transaction: what has gone over the bus, the exception in
\* flight, the bytes read
BbStart == [bus |-> << >>, err |-> "none", p_data_in |-> << >>]

\* send_start_condition()
SendStartCondition(t) ==
    IF t.err # "none" THEN t
    ELSE [t EXCEPT !.bus = Append(@, "start")]

\* send_stop_condition()
SendStopCondition(t) ==
    IF t.err # "none" THEN t
    ELSE [t EXCEPT !.bus = Append(@, "stop")]

\* write_byte(): eight write_bit() and the read of the ack bit; true when
\* the byte was acknowledged. A timeout leaves write_bit() as hal::timed_out
WriteByte(t, resp) ==
    IF t.err # "none" THEN t
    ELSE IF resp = "timeout" THEN [t EXCEPT !.err = "timed_out"]
    ELSE [t EXCEPT !.bus = Append(@, IF resp = "ack" THEN "byte_ack"
                                                      ELSE "byte_nack")]

\* write_address()
WriteAddress(t, resp) ==
    LET w == WriteByte(t, resp)
    IN  IF w.err = "none" /\ resp # "ack"
        THEN [SendStopCondition(w) EXCEPT !.err = "no_such_device"]
        ELSE w

\* write() as its documentation has it: a byte that was not acknowledged
\* ends the write with hal::io_error
RECURSIVE BbWriteThrows(_, _)
BbWriteThrows(t, wd) ==
    IF wd = << >> \/ t.err # "none" THEN t
    ELSE LET w == WriteByte(t, Head(wd))
         IN  IF Head(wd) = "nack" /\ w.err = "none"
             THEN [SendStopCondition(w) EXCEPT !.err = "io_error"]
             ELSE BbWriteThrows(w, Tail(wd))

\* write(): every byte of p_data_out is written; after a byte that was not
\* acknowledged a stop condition is sent and the loop goes on
RECURSIVE BbWrite(_, _)
BbWrite(t, wd) ==
    IF wd = << >> \/ t.err # "none" THEN t
    ELSE LET w == WriteByte(t, Head(wd))
         IN  BbWrite(IF Head(wd) = "nack" THEN SendStopCondition(w) ELSE w,
                     Tail(wd))

\* read(): every byte is read and answered, the last with a nack
RECURSIVE BbRead(_, _)
BbRead(t, rd) ==
    IF rd = << >> \/ t.err # "none" THEN t
    ELSE LET r == [t EXCEPT !.bus = Append(@, "read"),
                            !.p_data_in = Append(@, Head(rd).byte)]
         IN  BbRead(IF Head(rd).resp = "timeout"
                    THEN [r EXCEPT !.err = "timed_out"]
                    ELSE [r EXCEPT !.bus =
                            Append(@, IF Tail(rd) = << >> THEN "nack"
                                                           ELSE "ack")],
                    Tail(rd))

\* driver_transaction()
DriverTransaction(wa, wd, ra, rd) ==
    LET w == IF wd # << >>
             THEN BbWrite(WriteAddress(SendStartCondition(BbStart), wa), wd)
             ELSE BbStart
        r == IF rd # << >>
             THEN BbRead(WriteAddress(SendStartCondition(w), ra), rd)
             ELSE w
    IN  SendStopCondition(r)

\* sequences of at most n elements of S
SeqsUpTo(S, n) == UNION { [1 .. k -> S] : k \in 0 .. n }

\* driver_transaction() is called and runs to its end against a peripheral
BbTransaction ==
    /\ ~bb.called
    /\ \E wa, ra \in WriteResponses :
       \E wd \in SeqsUpTo(WriteResponses, MaxBytes) :
       \E rd \in SeqsUpTo(ReadResponses, MaxBytes) :
         LET t == DriverTransaction(wa, wd, ra, rd)
         IN  bb' = [called |-> TRUE,
                    p_data_out |-> [i \in 1 .. Len(wd) |-> i],
                    in_len |-> Len(rd),
                    wa |-> wa, wd |-> wd, ra |-> ra, rd |-> rd,
                    bus |-> t.bus, err |-> t.err, p_data_in |-> t.p_data_in]
    /\ UNCHANGED but_bb

\* the caller is done with the transaction
BbReturn ==
    /\ bb.called
    /\ bb' = BbIdle
    /\ UNCHANGED but_bb

BbInit == QuietInit

BbNext ==
    \/ BbTransaction
    \/ BbReturn

SpecI2c == BbInit /\ [][BbNext]_vars

\* the address byte of the write part was not acknowledged, or the write part
\* went through (or there was none) and the address byte of the read part
\* was not acknowledged
AddressNacked ==
    /\ bb.called
    /\ \/ bb.wd # << >> /\ bb.wa = "nack"
       \/ /\ bb.wd = << >> \/ (bb.wa = "ack" /\ \A i \in 1 .. Len(bb.wd) :
                                                    bb.wd[i] = "ack")
          /\ bb.rd # << >>
          /\ bb.ra = "nack"

\* the address byte of the write part was acknowledged and the first data
\* byte the peripheral did not acknowledge came before any timeout
DataNacked ==
    /\ bb.called
    /\ bb.wd # << >>
    /\ bb.wa = "ack"
    /\ \E i \in 1 .. Len(bb.wd) :
         /\ bb.wd[i] = "nack"
         /\ \A j \in 1 .. i - 1 : bb.wd[j] = "ack"

\* when the address byte is not acknowledged the transaction sends a stop
\* condition and fails with hal::no_such_device
C21_AddressNackFails ==
    AddressNacked
    => /\ bb.err = "no_such_device"
       /\ bb.bus # << >>
       /\ bb.bus[Len(bb.bus)] = "stop"
       /\ bb.bus[Len(bb.bus) - 1] = "byte_nack"

\* C21: in a bit_bang_i2c transaction, when a data byte written to the bus is
\* not acknowledged the write fails with hal::io_error, and when the address
\* byte is not acknowledged the transaction sends a stop condition and fails
\* with hal::no_such_device.
C21_NackFails ==
    /\ DataNacked => bb.err = "io_error"
    /\ C21_AddressNackFails

\* a data byte was not acknowledged and the transaction returned normally,
\* having written the bytes after it
C21_DataNackIgnored ==
    /\ DataNacked
    /\ bb.err = "none"
    /\ bb.wd = << "nack", "ack" >>
    /\ bb.bus = << "start", "byte_ack", "byte_nack", "stop", "byte_ack",
                   "stop" >>

\* ----------------------------- string descriptors in the two request paths

\* req is a GET_DESCRIPTOR(string) request
IsStringRequest(req) ==
    /\ req.n = size_std_req
    /\ req.recipient = "device"
    /\ DetermineStandardRequest(req) = ReqGetDescriptor
    /\ DescTypeOf(req) = DescString

\* a step of resume_ctrl_transaction() that services a GET_DESCRIPTOR(string)
\* request writes the bytes and ends with the error that the request loop of
\* enumerate() gives for the same request from the same state
SameAnswerAsEnumerate ==
    ( /\ pc = "resume_read"
      /\ done'.op = "request"
      /\ done'.phase = "resume"
      /\ IsStringRequest(done'.req) )
    => LET e == HandleStandardDeviceRequest(Ctx0, done'.req)
       IN  /\ done'.err = e.err
           /\ DataOf(done'.out) = DataOf(e.out)

\* in resume_ctrl_transaction() a device/configuration string yields the
\* first min(L, full length) bytes of its descriptor
SteadyDeviceConfigString ==
    (done.phase = "resume") => C4_DeviceConfigStringDescriptor

\* in resume_ctrl_transaction() a string that one interface emitted on the
\* scan is written in full when L > 2
SteadyInterfaceString ==
    ( /\ StringRequestDone
      /\ done.phase = "resume"
      /\ done.path = "iface"
      /\ done.err = "none"
      /\ Len(done.emitted) = 1
      /\ done.req.length > 2 )
    => LET i == done.emitted[1]
       IN  DataOf(done.out) =
             Flatten(WriteStringDescriptor(i, ifc[i],
                                           DescIdxOf(done.req)).desc)

\* C22: a GET_DESCRIPTOR(string) request with requested length L is answered
\* identically whether it is serviced inside enumerate() or by
\* resume_ctrl_transaction(): in the steady-state path too, a
\* device/configuration string yields the first min(L, full descriptor
\* length) bytes of header plus string, and an interface-owned string is
\* written in full whenever L > 2.
C22_StringAnswerSameInBothPaths ==
    /\ [][SameAnswerAsEnumerate]_vars
    /\ [](SteadyDeviceConfigString /\ SteadyInterfaceString)

\* resume_ctrl_transaction() answered GET_DESCRIPTOR(string) for an
\* interface's string with wLength 255 by two bytes
C22_SteadyHeaderOnly ==
    /\ StringRequestDone
    /\ done.phase = "resume"
    /\ done.path = "iface"
    /\ Len(done.emitted) = 1
    /\ done.req.length = 255
    /\ Len(DataOf(done.out)) = 2

\* ------------------------------------------------ the string-lookup cache

\* the last call resolved a string index by asking interfaces, and one of
\* them emitted its descriptor
InterfaceStringResolved ==
    /\ StringRequestDone
    /\ done.path = "iface"
    /\ done.err = "none"
    /\ done.emitted # << >>

\* C23: the single-entry string-lookup cache follows the resolutions: after
\* an interface-owned string index is resolved by scanning, the cache holds
\* that index together with the interface that recognized it, so a repeated
\* request for the same index is served from the cache without rescanning;
\* resolving a device/configuration string clears the cache.
C23_CacheFollowsResolutions ==
    /\ InterfaceStringResolved
       => m_iface_for_str_desc = << DescIdxOf(done.req), done.emitted[1] >>
    /\ (StringRequestDone /\ done.path = "cfg" /\ done.err = "none")
       => m_iface_for_str_desc = << >>

\* the cache is empty in every state
C23_CacheNeverFilled ==
    m_iface_for_str_desc = << >>

\* an interface's string was resolved by the scan and the cache is empty
C23_ResolvedNotCached ==
    /\ InterfaceStringResolved
    /\ done.asked # << >>
    /\ m_iface_for_str_desc = << >>

\* ------------------------------------ the scan for an interface's string

\* the last call took a GET_DESCRIPTOR(string) request to the interfaces
InterfaceStringRequestDone ==
    /\ StringRequestDone
    /\ done.path = "iface"

\* at most one interface emitted a string descriptor
AtMostOneEmits ==
    InterfaceStringRequestDone => Len(done.emitted) <= 1

\* no interface was asked after the one that recognized the index
ScanStopsAtFirst ==
    (InterfaceStringRequestDone /\ done.emitted # << >>)
    => done.asked[Len(done.asked)] = done.emitted[1]

\* with a configuration active only its interfaces were asked
OnlyActiveAsked ==
    (InterfaceStringRequestDone /\ done.pre_active # 0)
    => \A k \in 1 .. Len(done.asked) :
         done.asked[k] \in IfacesOf(done.pre_active)

\* C24: for one GET_DESCRIPTOR(string) request on an interface-owned index,
\* at most one interface emits a string descriptor: scanning stops at the
\* first interface that recognizes the index, and when a configuration is
\* active only that configuration's interfaces are asked (all configurations
\* are scanned only while none is active). An interface shared by several
\* configurations is therefore never made to answer the same request twice.
C24_OneInterfaceAnswers ==
    /\ AtMostOneEmits
    /\ ScanStopsAtFirst
    /\ OnlyActiveAsked

\* one request made an interface that two configurations share emit its
\* string descriptor twice
C24_SharedInterfaceAnswersTwice ==
    /\ InterfaceStringRequestDone
    /\ done.err = "none"
    /\ \E i \in ConfiguredIfaces : done.emitted = << i, i >>

\* ------------------------------------------ the interface count of a
\* configuration

\* the interface delta interface i returns to the finalization pass
InterfaceDelta(i) == WriteDescriptors(i, ifc[i], 0, StartStrIdx).d_iface

\* the sum of the interface deltas of the interfaces in ifaces
RECURSIVE SumInterfaceDeltas(_)
SumInterfaceDeltas(ifaces) ==
    IF ifaces = << >> THEN 0
    ELSE InterfaceDelta(Head(ifaces)) + SumInterfaceDeltas(Tail(ifaces))

\* C25: after enumerate(), each configuration's interface-count field equals
\* the number of interface index slots consumed by that configuration's own
\* interfaces (the sum of the interface deltas its interfaces returned),
\* independent of how many interfaces the configurations before it in the
\* array own.
C25_OwnInterfaceCount ==
    (pass.n >= 1)
    => \A c \in Configs :
         num_interfaces(m_configs[c]) = SumInterfaceDeltas(topo[c])

\* the interface-count field of the first configuration
C25_FirstConfigurationCount ==
    (pass.n >= 1)
    => num_interfaces(m_configs[1]) = SumInterfaceDeltas(topo[1])

\* after enumerate() the count of a later configuration holds the slots of
\* the configurations before it as well
C25_CountIncludesEarlier ==
    /\ pass.n >= 1
    /\ \E c \in Configs :
         /\ c > 1
         /\ topo[c] # << >>
         /\ SumInterfaceDeltas(topo[1]) > 0
         /\ num_interfaces(m_configs[c]) =
              SumInterfaceDeltas(topo[1]) + SumInterfaceDeltas(topo[c])

\* ------------------------------------------------- the active configuration

\* C26 for the enumerator of src/v5: m_active_conf is null or the position
\* of one of the configurations, and a SET_CONFIGURATION that selects none
\* ends with an error and leaves it as it was
C26_ActiveConfigurationV5 ==
    /\ m_active_conf \in 0 .. NumConfigs
    /\ ( /\ StdRequestDone(ReqSetConfiguration)
         /\ done.req.value \notin 1 .. NumConfigs )
       => ( /\ done.err # "none"
            /\ m_active_conf = done.pre_active )

\* a SET_CONFIGURATION with value 0 or NumConfigs + 1 was refused while a
\* configuration was active
C26_WitnessV5 ==
    /\ StdRequestDone(ReqSetConfiguration)
    /\ done.req.value \in { 0, NumConfigs + 1 }
    /\ done.err = "out_of_range"
    /\ done.pre_active # 0
    /\ m_active_conf = done.pre_active

\* the largest wValue of a SET_CONFIGURATION the host sends
MaxConfigValue == 11

\* handle_standard_device_request of src/include, case set_configuration:
\* m_active_conf = &m_configs[req.value]. The configurations are numbered
\* from 0 there. operator[] of std::array with an index that is not below
\* its size is undefined: the build makes the pointer that many elements
\* from the start of the array, or, with the assertions of the library on,
\* ends the program
LegacySetConfiguration(value) ==
    /\ ~lsc.aborted
    /\ \/ lsc' = [lsc EXCEPT !.m_active_conf = value,
                             !.pre = lsc.m_active_conf,
                             !.value = value,
                             !.handled = TRUE,
                             !.err = "none"]
       \/ /\ value >= NumConfigs
          /\ lsc' = [lsc EXCEPT !.pre = lsc.m_active_conf,
                                !.value = value,
                                !.handled = TRUE,
                                !.aborted = TRUE]
    /\ UNCHANGED but_lsc

\* enumerate() of src/include is called again: m_active_conf = nullptr
LegacyReenumerate ==
    /\ ~lsc.aborted
    /\ lsc' = [lsc EXCEPT !.m_active_conf = None, !.handled = FALSE]
    /\ UNCHANGED but_lsc

LegacyConfInit == QuietInit

LegacyConfNext ==
    \/ \E value \in 0 .. MaxConfigValue : LegacySetConfiguration(value)
    \/ LegacyReenumerate

SpecLegacyConf == LegacyConfInit /\ [][LegacyConfNext]_vars

\* C26: in every reachable state the active configuration is either null or
\* one of the enumerator's own num_configs configurations: a
\* SET_CONFIGURATION whose value selects no configuration (0, or greater
\* than the number of configurations) raises an error and leaves the active
\* configuration unchanged.
C26_ActiveConfigurationOwn ==
    /\ C26_ActiveConfigurationV5
    /\ lsc.m_active_conf \in { None } \cup (0 .. NumConfigs - 1)
    /\ (lsc.handled /\ lsc.value \notin 0 .. NumConfigs - 1)
       => ( /\ lsc.err # "none"
            /\ lsc.m_active_conf = lsc.pre )

\* the enumerator of src/include took a SET_CONFIGURATION whose value is
\* the number of configurations: no error, and m_active_conf points behind
\* the last configuration
C26_LegacyPointsOutside ==
    /\ lsc.handled
    /\ lsc.value = NumConfigs
    /\ lsc.err = "none"
    /\ ~lsc.aborted
    /\ lsc.m_active_conf = NumConfigs

\* ------------------------------ the hand-off from enumeration to steady state

\* enumerate() has handled SET_CONFIGURATION: it is about to replace the
\* receive callback, or has replaced it
SetConfigurationHandled ==
    \/ pc = "enum_swap"
    \/ ep.callback = "steady"

\* a notification the endpoint delivers once enumerate() has handled
\* SET_CONFIGURATION sets m_has_setup_packet
NotificationSetsFlag ==
    (SetConfigurationHandled /\ Interrupt) => m_has_setup_packet'

\* C27: no receive notification is lost across the hand-off from enumeration
\* to steady state: a notification the endpoint delivers at any time after
\* enumerate() has handled SET_CONFIGURATION (including before enumerate()
\* has swapped the receive callback) sets the pending-setup flag, so the
\* next resume_ctrl_transaction() services that packet instead of waiting
\* forever.
C27_NoNotificationLost ==
    [][NotificationSetsFlag]_vars

\* the statement for the notifications delivered after the callback was
\* replaced
C27_AfterSwap ==
    [][(ep.callback = "steady" /\ Interrupt) => m_has_setup_packet']_vars

\* a notification arrived between the handling of SET_CONFIGURATION and the
\* replacement of the callback, enumerate() returned, and
\* resume_ctrl_transaction() waits with m_has_setup_packet false
C27_ResumeWaitsAfterNotification ==
    /\ pc = "resume_wait"
    /\ ep.callback = "steady"
    /\ done = NoDone
    /\ ~m_has_setup_packet
    /\ ~waiting_for_data

\* --------------------------------- the receive callback outside enumerate()

\* while enumerate() is not executing the registered callback is not the one
\* that writes to its local wait flag
CallbackNotOfEnumerate ==
    (~InEnumerate) => ep.callback # "enum"

\* a notification that arrives while enumerate() is not executing runs no
\* callback of the enumeration phase
NotificationOutsideEnumerate ==
    (~InEnumerate /\ Interrupt) => ep.callback # "enum"

\* C28: whenever enumerate() is not executing, whether it returned normally
\* or ended with an error (framing error, non-device recipient, or a failed
\* request), the receive callback registered on the control endpoint is not
\* the enumeration-phase callback that writes to enumerate()'s local wait
\* flag; a notification arriving after enumerate() has ended never touches
\* that local flag.
C28_NoCallbackOnDeadLocal ==
    /\ []CallbackNotOfEnumerate
    /\ [][NotificationOutsideEnumerate]_vars

\* enumerate() ended with a framing error and the endpoint still holds the
\* callback that refers to its local flag
C28_CallbackLeftAfterError ==
    /\ pc = "idle"
    /\ done.op = "request"
    /\ done.phase = "enumerate"
    /\ done.err = "message_size"
    /\ ep.connected
    /\ ep.callback = "enum"

\* ------------------------------------------- enumerate() and a host that
\* sends one well-formed request at a time

\* the host sends a setup packet only while enumerate() waits for one
HostInterrupt ==
    /\ pc = "enum_wait"
    /\ waiting_for_data
    /\ Interrupt

\* the packet enumerate() reads is a well-formed request to the device that
\* is handled with success
HostEnumProcess ==
    /\ EnumProcess
    /\ done'.op = "request"
    /\ done'.err = "none"

HostInit ==
    /\ Init
    /\ topo = [c \in Configs |-> << 1, 2 >>]

HostNext ==
    \/ CallEnumerate
    \/ HostInterrupt
    \/ EnumWake
    \/ HostEnumProcess
    \/ EnumSwap

\* the thread that called enumerate() keeps running: the wait loop ends once
\* the flag is cleared, a packet that was read is handled, and after
\* SET_CONFIGURATION the callback is replaced and enumerate() returns
SpecHost ==
    /\ HostInit
    /\ [][HostNext]_vars
    /\ WF_vars(EnumWake)
    /\ WF_vars(HostEnumProcess)
    /\ WF_vars(EnumSwap)

\* enumerate() has returned after a SET_CONFIGURATION that selected a
\* configuration
ReturnedConfigured ==
    /\ pc = "idle"
    /\ m_active_conf # 0
    /\ ep.callback = "steady"

\* enumerate() leaves its loop only after a SET_CONFIGURATION that
\* succeeded, and while it waits only a notification lets it go on
NoReturnWithoutSetConfiguration ==
    /\ (pc = "enum_read" /\ pc' = "enum_swap") => SetConfigurationSucceeded'
    /\ (InEnumerate /\ pc' = "idle") => pc = "enum_swap"
    /\ (pc = "enum_wait" /\ waiting_for_data /\ pc' # pc) => FALSE

\* the host keeps sending: while enumerate() waits a packet arrives, and
\* of the packets enumerate() reads one is at last a SET_CONFIGURATION that
\* selects a configuration
HostSendsSetConfiguration ==
    /\ WF_vars(HostInterrupt)
    /\ ([]<>(pc = "enum_read")) => ([]<>SetConfigurationSucceeded)

\* C29: if the host sends well-formed device-recipient setup packets one at
\* a time (each notification delivered only after the previous request was
\* fully processed), every request handled succeeds, and one of them is
\* eventually a valid SET_CONFIGURATION, then enumerate() eventually
\* returns; without such a SET_CONFIGURATION and without an error it never
\* returns (there is no timeout).
C29_ReturnsAfterSetConfiguration ==
    /\ HostSendsSetConfiguration => (InEnumerate ~> ReturnedConfigured)
    /\ [][NoReturnWithoutSetConfiguration]_vars

\* enumerate() has returned after the host sent four requests, the last of
\* them SET_CONFIGURATION(2)
C29_Witness ==
    /\ ReturnedConfigured
    /\ SetConfigurationSucceeded
    /\ m_active_conf = 2
    /\ ep.address # 0

\* without the assumption that a SET_CONFIGURATION comes, enumerate() may
\* stay in its loop
C29_ReturnsWhateverTheHostSends ==
    WF_vars(HostInterrupt) => (InEnumerate ~> ReturnedConfigured)

\* ------------------------- the string indexes of the enumerator of src/include

\* the constructor's test of p_starting_str_idx:
\* p_starting_str_idx < 1 || p_starting_str_idx > 0xFF - 3 + num_configs
StartingStrIdxRejected(p_starting_str_idx) ==
    \/ p_starting_str_idx < 1
    \/ p_starting_str_idx > (255 - 3) + NumConfigs

\* enumerate() of src/include, phase one: cur_str_idx, a u8 that starts at
\* m_starting_str_idx, is handed out and incremented for the manufacturer,
\* the product, the serial number and each configuration
LegacyDeviceIndexes(start) ==
    << start, Byte(start + 1), Byte(start + 2) >>

LegacyConfigIndexes(start) ==
    [i \in 1 .. NumConfigs |-> Byte(start + 3 + (i - 1))]

\* enumerator(p_ctrl_ep, p_device, p_configs, p_lang_str, p_starting_str_idx)
LegacyConstruct ==
    /\ ~ctor.called
    /\ \E p_starting_str_idx \in 0 .. 255 :
         ctor' = IF StartingStrIdxRejected(p_starting_str_idx)
                 THEN [CtorIdle EXCEPT
                         !.called = TRUE,
                         !.p_starting_str_idx = p_starting_str_idx,
                         !.err = "argument_out_of_domain"]
                 ELSE [called |-> TRUE,
                       p_starting_str_idx |-> p_starting_str_idx,
                       err |-> "none",
                       device_idx |-> LegacyDeviceIndexes(p_starting_str_idx),
                       config_idx |-> LegacyConfigIndexes(p_starting_str_idx)]
    /\ UNCHANGED but_ctor

\* the enumerator is destroyed
LegacyDestroy ==
    /\ ctor.called
    /\ ctor' = CtorIdle
    /\ UNCHANGED but_ctor

LegacyCtorInit == QuietInit

LegacyCtorNext ==
    \/ LegacyConstruct
    \/ LegacyDestroy

SpecLegacyCtor == LegacyCtorInit /\ [][LegacyCtorNext]_vars

\* the string indexes handed to the device and the configurations
HandedOut ==
    { ctor.device_idx[k] : k \in 1 .. Len(ctor.device_idx) }
    \cup { ctor.config_idx[k] : k \in 1 .. Len(ctor.config_idx) }

\* the starting index leaves no room up to 0xFF for the three device strings
\* and one string for each configuration
NoRoom(start) == start + 3 + NumConfigs - 1 > 255

\* C30: the enumerator constructor rejects with argument_out_of_domain every
\* starting string index that is 0 or that leaves no room below 0xFF for the
\* three device strings plus one string per configuration; for every
\* accepted starting index, no string index assigned to the device or to a
\* configuration during enumerate() wraps around 8 bits or lands on the
\* reserved index 0.
C30_StartingIndexChecked ==
    ctor.called
    => /\ (ctor.p_starting_str_idx = 0 \/ NoRoom(ctor.p_starting_str_idx))
          => ctor.err = "argument_out_of_domain"
       /\ (ctor.err = "none")
          => /\ 0 \notin HandedOut
             /\ \A k \in 1 .. 3 :
                  ctor.device_idx[k] = ctor.p_starting_str_idx + (k - 1)
             /\ \A i \in 1 .. NumConfigs :
                  ctor.config_idx[i] = ctor.p_starting_str_idx + 3 + (i - 1)

\* the statement for the starting index 0
C30_ZeroRejected ==
    (ctor.called /\ ctor.p_starting_str_idx = 0)
    => ctor.err = "argument_out_of_domain"

\* the constructor accepted a starting index with which the serial number
\* gets index 0xFF and the first configuration index 0
C30_AcceptedAndWrapped ==
    /\ ctor.called
    /\ ctor.err = "none"
    /\ ctor.device_idx[3] = 255
    /\ ctor.config_idx[1] = 0

====
